---- MODULE Spec2Model ----
(***************************************************************************)
(* Model of the Bach-flower recommendation backend (backend/server.py):    *)
(* the static catalog and bundle tables, the networkx relationship graph   *)
(* and its (re)build, the vector / lexical / bundle matchers, the          *)
(* get_recommendations orchestrator, the item lookups and the admin        *)
(* rebuild, scheduled as coroutines on a single asyncio event loop.        *)
(*                                                                         *)
(* Texts are sequences of whitespace-separated chunks: a chunk is either   *)
(* a word (kept verbatim, with its case and punctuation) or WS, a run of   *)
(* whitespace.  Scores that the code computes in floating point are kept   *)
(* exactly as integers: raw lexical scores in halves (ScoreScale), edge    *)
(* weights in tenths, similarities in twentieths (SimScale).                *)
(***************************************************************************)
EXTENDS Integers, Sequences, FiniteSets, TLC

\* ------------------------------------------------------------------------
\* The catalog: BACH_REMEDIES in dict (definition) order.  The display-only
\* fields summary / composition / effects / dosage_notes travel with name.
\* ------------------------------------------------------------------------
BACH_REMEDIES ==
  << [ key |-> "agrimony", name |-> "Agrimony", category |-> "oversensitive",
       symptoms |-> <<<<"anxiety", "hidden", "behind", "cheerful", "mask">>, <<"inner", "torment">>, <<"worry", "concealed">>, <<"restlessness">>, <<"torture", "behind", "brave", "face">>, <<"mental", "anguish">>, <<"seeks", "company", "to", "avoid", "being", "alone", "with", "thoughts">>>>,
       emotional_state |-> <<"mental", "torture", "hidden", "behind", "cheerful", "facade">>,
       remedy_for |-> <<"Those", "who", "hide", "worries", "behind", "a", "happy", "mask">>,
       combinations |-> <<"walnut", "mimulus", "white_chestnut">>,
       summary |-> "For mental torture hidden behind a brave face, helping those who suffer inwardly while appearing cheerful outwardly" ],
     [ key |-> "aspen", name |-> "Aspen", category |-> "fear",
       symptoms |-> <<<<"vague", "fears">>, <<"apprehension">>, <<"foreboding">>, <<"unknown", "fears">>, <<"nightmares">>, <<"anxiety", "without", "cause">>, <<"trembling">>, <<"nervousness">>>>,
       emotional_state |-> <<"fear", "of", "unknown", "things">>,
       remedy_for |-> <<"Vague", "unknown", "fears", "and", "anxieties">>,
       combinations |-> <<"mimulus", "cherry_plum", "rock_rose">>,
       summary |-> "For mysterious fears and apprehensions with no obvious cause, bringing courage to face the unknown" ],
     [ key |-> "beech", name |-> "Beech", category |-> "overcare",
       symptoms |-> <<<<"intolerance">>, <<"critical">>, <<"arrogance">>, <<"lack", "of", "compassion">>, <<"judgmental">>, <<"fault-finding">>, <<"irritability">>>>,
       emotional_state |-> <<"intolerance", "and", "criticism", "of", "others">>,
       remedy_for |-> <<"Intolerance", "and", "being", "overly", "critical">>,
       combinations |-> <<"willow", "impatiens", "vine">>,
       summary |-> "For critical and intolerant attitudes, helping develop understanding and acceptance of others" ],
     [ key |-> "centaury", name |-> "Centaury", category |-> "oversensitive",
       symptoms |-> <<<<"weakness", "of", "will">>, <<"subservience">>, <<"difficulty", "saying", "no">>, <<"eager", "to", "please">>, <<"easily", "influenced">>, <<"weak-willed">>, <<"doormat">>>>,
       emotional_state |-> <<"inability", "to", "say", "no">>,
       remedy_for |-> <<"Those", "who", "cannot", "say", "no", "and", "are", "easily", "exploited">>,
       combinations |-> <<"walnut", "pine", "larch">>,
       summary |-> "For those who are too eager to please others and cannot assert themselves, building inner strength" ],
     [ key |-> "cerato", name |-> "Cerato", category |-> "uncertainty",
       symptoms |-> <<<<"lack", "of", "confidence", "in", "own", "judgment">>, <<"seeks", "advice", "constantly">>, <<"doubt", "own", "decisions">>, <<"easily", "influenced">>, <<"intuition", "distrust">>>>,
       emotional_state |-> <<"doubt", "in", "own", "wisdom">>,
       remedy_for |-> <<"Those", "who", "doubt", "their", "own", "judgment">>,
       combinations |-> <<"scleranthus", "wild_oat", "gentian">>,
       summary |-> "For those who constantly seek others' opinions instead of trusting their own inner wisdom" ],
     [ key |-> "cherry_plum", name |-> "Cherry Plum", category |-> "fear",
       symptoms |-> <<<<"fear", "of", "losing", "control">>, <<"desperation">>, <<"fear", "of", "doing", "something", "terrible">>, <<"breakdown">>, <<"hysteria">>, <<"loss", "of", "reason">>>>,
       emotional_state |-> <<"fear", "of", "losing", "mental", "control">>,
       remedy_for |-> <<"Fear", "of", "losing", "control", "and", "desperate", "thoughts">>,
       combinations |-> <<"rock_rose", "aspen", "sweet_chestnut">>,
       summary |-> "For extreme mental pressure and fear of losing control, one of the key Rescue Remedy ingredients" ],
     [ key |-> "chestnut_bud", name |-> "Chestnut Bud", category |-> "insufficient_interest",
       symptoms |-> <<<<"failure", "to", "learn", "from", "experience">>, <<"repeating", "mistakes">>, <<"lack", "of", "observation">>, <<"carelessness">>, <<"inattention">>>>,
       emotional_state |-> <<"failure", "to", "learn", "from", "mistakes">>,
       remedy_for |-> <<"Those", "who", "repeat", "the", "same", "mistakes">>,
       combinations |-> <<"honeysuckle", "clematis", "wild_rose">>,
       summary |-> "For those who fail to learn from experience and keep making the same mistakes" ],
     [ key |-> "chicory", name |-> "Chicory", category |-> "overcare",
       symptoms |-> <<<<"possessiveness">>, <<"selfishness">>, <<"manipulation">>, <<"self-pity">>, <<"attention", "seeking">>, <<"controlling">>, <<"conditional", "love">>>>,
       emotional_state |-> <<"selfish", "possessive", "love">>,
       remedy_for |-> <<"Possessive", "love", "and", "self-centered", "care">>,
       combinations |-> <<"heather", "willow", "beech">>,
       summary |-> "For possessive and manipulative behavior disguised as love and care for others" ],
     [ key |-> "clematis", name |-> "Clematis", category |-> "insufficient_interest",
       symptoms |-> <<<<"dreamy">>, <<"absent-minded">>, <<"lack", "of", "interest", "in", "present">>, <<"escapism">>, <<"drowsiness">>, <<"inattention">>, <<"living", "in", "future">>>>,
       emotional_state |-> <<"dreamy", "inattention", "to", "present">>,
       remedy_for |-> <<"Dreaminess", "and", "lack", "of", "interest", "in", "present">>,
       combinations |-> <<"wild_rose", "chestnut_bud", "honeysuckle">>,
       summary |-> "For dreamers and escapists who live in their imagination rather than reality, a Rescue Remedy ingredient" ],
     [ key |-> "crab_apple", name |-> "Crab Apple", category |-> "despondency",
       symptoms |-> <<<<"self-disgust">>, <<"feeling", "unclean">>, <<"shame">>, <<"poor", "self-image">>, <<"obsession", "with", "details">>, <<"perfectionism">>>>,
       emotional_state |-> <<"self-hatred", "and", "disgust">>,
       remedy_for |-> <<"Self-disgust", "and", "feeling", "unclean">>,
       combinations |-> <<"pine", "larch", "elm">>,
       summary |-> "The cleansing remedy for those who feel contaminated or obsessed with imperfection" ],
     [ key |-> "elm", name |-> "Elm", category |-> "despondency",
       symptoms |-> <<<<"overwhelm">>, <<"temporary", "inadequacy">>, <<"responsibility", "burden">>, <<"momentary", "loss", "of", "confidence">>, <<"feeling", "inadequate">>>>,
       emotional_state |-> <<"overwhelmed", "by", "responsibility">>,
       remedy_for |-> <<"Temporary", "feelings", "of", "being", "overwhelmed">>,
       combinations |-> <<"oak", "olive", "hornbeam">>,
       summary |-> "For capable people temporarily overwhelmed by responsibilities and duties" ],
     [ key |-> "gentian", name |-> "Gentian", category |-> "uncertainty",
       symptoms |-> <<<<"discouragement">>, <<"doubt">>, <<"setbacks", "affect", "easily">>, <<"pessimism">>, <<"depression", "from", "known", "cause">>>>,
       emotional_state |-> <<"discouragement", "from", "setbacks">>,
       remedy_for |-> <<"Discouragement", "and", "doubt", "from", "known", "causes">>,
       combinations |-> <<"gorse", "mustard", "cerato">>,
       summary |-> "For discouragement after setbacks, doubt when progress is slow" ],
     [ key |-> "gorse", name |-> "Gorse", category |-> "uncertainty",
       symptoms |-> <<<<"hopelessness">>, <<"despair">>, <<"giving", "up">>, <<"no", "faith", "in", "recovery">>, <<"pessimism">>, <<"lost", "hope">>>>,
       emotional_state |-> <<"hopelessness", "and", "despair">>,
       remedy_for |-> <<"Great", "hopelessness", "and", "despair">>,
       combinations |-> <<"sweet_chestnut", "gentian", "wild_rose">>,
       summary |-> "For deep hopelessness when all seems lost, bringing light into darkness" ],
     [ key |-> "heather", name |-> "Heather", category |-> "loneliness",
       symptoms |-> <<<<"self-centered">>, <<"talkative">>, <<"attention", "seeking">>, <<"loneliness">>, <<"poor", "listener">>, <<"self-obsessed">>>>,
       emotional_state |-> <<"self-centered", "talkativeness">>,
       remedy_for |-> <<"Self-centeredness", "and", "constant", "need", "for", "attention">>,
       combinations |-> <<"chicory", "impatiens", "water_violet">>,
       summary |-> "For those who constantly talk about themselves and seek attention" ],
     [ key |-> "holly", name |-> "Holly", category |-> "oversensitive",
       symptoms |-> <<<<"hatred">>, <<"jealousy">>, <<"envy">>, <<"revenge">>, <<"suspicion">>, <<"anger">>, <<"vexation">>>>,
       emotional_state |-> <<"hatred", "and", "jealousy">>,
       remedy_for |-> <<"Hatred,", "envy,", "jealousy", "and", "revenge">>,
       combinations |-> <<"willow", "beech", "vine">>,
       summary |-> "For negative emotions like hatred, jealousy, and envy, opening the heart to love" ],
     [ key |-> "honeysuckle", name |-> "Honeysuckle", category |-> "insufficient_interest",
       symptoms |-> <<<<"living", "in", "past">>, <<"nostalgia">>, <<"regret">>, <<"homesickness">>, <<"dwelling", "on", "past">>, <<"loss", "of", "interest", "in", "present">>>>,
       emotional_state |-> <<"living", "in", "the", "past">>,
       remedy_for |-> <<"Living", "in", "the", "past", "and", "nostalgia">>,
       combinations |-> <<"clematis", "wild_rose", "chestnut_bud">>,
       summary |-> "For those stuck in the past, unable to move forward with their lives" ],
     [ key |-> "hornbeam", name |-> "Hornbeam", category |-> "uncertainty",
       symptoms |-> <<<<"mental", "fatigue">>, <<"procrastination">>, <<"tiredness", "before", "starting">>, <<"doubt", "in", "ability", "to", "cope">>, <<"weariness">>>>,
       emotional_state |-> <<"mental", "weariness">>,
       remedy_for |-> <<"Mental", "fatigue", "and", "procrastination">>,
       combinations |-> <<"olive", "elm", "oak">>,
       summary |-> "For mental tiredness and the Monday morning feeling" ],
     [ key |-> "impatiens", name |-> "Impatiens", category |-> "loneliness",
       symptoms |-> <<<<"impatience">>, <<"irritability">>, <<"hasty">>, <<"tension">>, <<"intolerance", "of", "slow", "pace">>, <<"quick", "thinking">>>>,
       emotional_state |-> <<"impatience", "and", "irritability">>,
       remedy_for |-> <<"Impatience", "and", "irritability", "with", "others">>,
       combinations |-> <<"beech", "heather", "vine">>,
       summary |-> "For quick-thinking people who are impatient with slower minds, a Rescue Remedy ingredient" ],
     [ key |-> "larch", name |-> "Larch", category |-> "despondency",
       symptoms |-> <<<<"lack", "of", "confidence">>, <<"expects", "failure">>, <<"inferiority", "complex">>, <<"hesitation">>, <<"despondency">>>>,
       emotional_state |-> <<"lack", "of", "confidence">>,
       remedy_for |-> <<"Lack", "of", "confidence", "and", "expectation", "of", "failure">>,
       combinations |-> <<"cerato", "centaury", "pine">>,
       summary |-> "For those who expect to fail and lack confidence in their abilities" ],
     [ key |-> "mimulus", name |-> "Mimulus", category |-> "fear",
       symptoms |-> <<<<"fear", "of", "known", "things">>, <<"shyness">>, <<"timidity">>, <<"nervousness">>, <<"anxiety", "about", "specific", "things">>, <<"phobias">>>>,
       emotional_state |-> <<"fear", "of", "known", "things">>,
       remedy_for |-> <<"Fear", "of", "known", "things", "and", "shyness">>,
       combinations |-> <<"aspen", "larch", "agrimony">>,
       summary |-> "For everyday fears and anxieties about known things" ],
     [ key |-> "mustard", name |-> "Mustard", category |-> "insufficient_interest",
       symptoms |-> <<<<"depression", "without", "cause">>, <<"gloom">>, <<"melancholy">>, <<"sadness">>, <<"dark", "cloud", "feeling">>>>,
       emotional_state |-> <<"deep", "depression", "without", "reason">>,
       remedy_for |-> <<"Deep", "depression", "that", "comes", "and", "goes", "without", "reason">>,
       combinations |-> <<"gentian", "gorse", "sweet_chestnut">>,
       summary |-> "For deep gloom and depression that descends like a dark cloud" ],
     [ key |-> "oak", name |-> "Oak", category |-> "despondency",
       symptoms |-> <<<<"exhaustion", "but", "keeps", "going">>, <<"never", "gives", "up">>, <<"duty", "bound">>, <<"stubborn", "persistence">>, <<"overwork">>>>,
       emotional_state |-> <<"exhausted", "but", "struggling", "on">>,
       remedy_for |-> <<"Those", "who", "struggle", "on", "despite", "exhaustion">>,
       combinations |-> <<"elm", "olive", "hornbeam">>,
       summary |-> "For strong, reliable people who never give up but are reaching their limits" ],
     [ key |-> "olive", name |-> "Olive", category |-> "insufficient_interest",
       symptoms |-> <<<<"complete", "exhaustion">>, <<"drained">>, <<"no", "reserves", "left">>, <<"worn", "out">>, <<"fatigue">>>>,
       emotional_state |-> <<"complete", "mental", "and", "physical", "exhaustion">>,
       remedy_for |-> <<"Complete", "exhaustion", "of", "mind", "and", "body">>,
       combinations |-> <<"oak", "elm", "hornbeam">>,
       summary |-> "For complete physical and mental exhaustion after long struggle" ],
     [ key |-> "pine", name |-> "Pine", category |-> "despondency",
       symptoms |-> <<<<"guilt">>, <<"self-reproach">>, <<"blame", "self", "for", "others'", "mistakes">>, <<"never", "satisfied", "with", "efforts">>, <<"apologetic">>>>,
       emotional_state |-> <<"guilt", "and", "self-reproach">>,
       remedy_for |-> <<"Guilt", "and", "self-reproach">>,
       combinations |-> <<"crab_apple", "larch", "centaury">>,
       summary |-> "For guilt, self-blame, and those who are never satisfied with their efforts" ],
     [ key |-> "red_chestnut", name |-> "Red Chestnut", category |-> "overcare",
       symptoms |-> <<<<"excessive", "worry", "for", "others">>, <<"fearful", "for", "loved", "ones">>, <<"anxiety", "for", "others'", "wellbeing">>, <<"over-concern">>>>,
       emotional_state |-> <<"excessive", "concern", "for", "others">>,
       remedy_for |-> <<"Excessive", "worry", "and", "fear", "for", "others">>,
       combinations |-> <<"chicory", "vine", "beech">>,
       summary |-> "For anxious over-concern for the welfare of loved ones" ],
     [ key |-> "rescue_remedy", name |-> "Rescue Remedy", category |-> "emergency",
       symptoms |-> <<<<"emergency">>, <<"trauma">>, <<"shock">>, <<"panic">>, <<"crisis">>, <<"stress">>, <<"accident">>>>,
       emotional_state |-> <<"emergency", "and", "crisis", "situations">>,
       remedy_for |-> <<"Emergency", "situations,", "trauma,", "shock", "and", "crisis">>,
       combinations |-> <<"rock_rose", "impatiens", "cherry_plum", "star_of_bethlehem", "clematis">>,
       summary |-> "The famous five-flower emergency blend for crisis and trauma situations" ],
     [ key |-> "rock_rose", name |-> "Rock Rose", category |-> "fear",
       symptoms |-> <<<<"terror">>, <<"panic">>, <<"nightmare">>, <<"extreme", "fear">>, <<"helplessness">>, <<"emergency">>>>,
       emotional_state |-> <<"extreme", "terror", "and", "panic">>,
       remedy_for |-> <<"Terror,", "panic", "and", "extreme", "fear">>,
       combinations |-> <<"cherry_plum", "aspen", "mimulus">>,
       summary |-> "For extreme fear, terror and panic states, a Rescue Remedy ingredient" ],
     [ key |-> "rock_water", name |-> "Rock Water", category |-> "overcare",
       symptoms |-> <<<<"self-denial">>, <<"rigidity">>, <<"self-discipline">>, <<"hard", "on", "self">>, <<"strict", "principles">>, <<"inflexibility">>>>,
       emotional_state |-> <<"rigid", "self-discipline">>,
       remedy_for |-> <<"Self-denial", "and", "rigid", "adherence", "to", "principles">>,
       combinations |-> <<"vine", "beech", "oak">>,
       summary |-> "For those who are hard on themselves with rigid self-discipline" ],
     [ key |-> "scleranthus", name |-> "Scleranthus", category |-> "uncertainty",
       symptoms |-> <<<<"indecision">>, <<"uncertainty", "between", "choices">>, <<"mood", "swings">>, <<"hesitation">>, <<"vacillation">>>>,
       emotional_state |-> <<"indecision", "between", "alternatives">>,
       remedy_for |-> <<"Indecision", "and", "uncertainty", "between", "two", "choices">>,
       combinations |-> <<"cerato", "wild_oat", "gentian">>,
       summary |-> "For indecision and uncertainty when torn between two choices" ],
     [ key |-> "star_of_bethlehem", name |-> "Star of Bethlehem", category |-> "despondency",
       symptoms |-> <<<<"shock">>, <<"trauma">>, <<"grief">>, <<"distress">>, <<"after-effects", "of", "shock">>, <<"comfort">>>>,
       emotional_state |-> <<"shock", "and", "trauma">>,
       remedy_for |-> <<"Shock,", "trauma", "and", "grief">>,
       combinations |-> <<"sweet_chestnut", "willow", "pine">>,
       summary |-> "The great comforter for shock and trauma, a Rescue Remedy ingredient" ],
     [ key |-> "sweet_chestnut", name |-> "Sweet Chestnut", category |-> "despondency",
       symptoms |-> <<<<"extreme", "mental", "anguish">>, <<"despair">>, <<"limit", "of", "endurance">>, <<"dark", "night", "of", "soul">>, <<"hopelessness">>>>,
       emotional_state |-> <<"extreme", "mental", "anguish">>,
       remedy_for |-> <<"Extreme", "mental", "anguish", "and", "despair">>,
       combinations |-> <<"gorse", "cherry_plum", "star_of_bethlehem">>,
       summary |-> "For extreme mental anguish when all seems hopeless" ],
     [ key |-> "vervain", name |-> "Vervain", category |-> "overcare",
       symptoms |-> <<<<"over-enthusiasm">>, <<"fanaticism">>, <<"strain">>, <<"tension">>, <<"fixed", "ideas">>, <<"missionary", "zeal">>>>,
       emotional_state |-> <<"over-enthusiasm", "and", "strain">>,
       remedy_for |-> <<"Over-enthusiasm", "and", "fixed", "ideas">>,
       combinations |-> <<"vine", "impatiens", "beech">>,
       summary |-> "For over-enthusiastic people who strain themselves with their convictions" ],
     [ key |-> "vine", name |-> "Vine", category |-> "overcare",
       symptoms |-> <<<<"dominating">>, <<"inflexible">>, <<"tyrannical">>, <<"arrogant">>, <<"ruthless">>, <<"ambitious">>, <<"leadership">>>>,
       emotional_state |-> <<"domination", "and", "inflexibility">>,
       remedy_for |-> <<"Dominating", "behavior", "and", "inflexibility">>,
       combinations |-> <<"beech", "vervain", "impatiens">>,
       summary |-> "For natural leaders who become dominating and inflexible" ],
     [ key |-> "walnut", name |-> "Walnut", category |-> "oversensitive",
       symptoms |-> <<<<"influenced", "by", "others">>, <<"life", "changes">>, <<"transition">>, <<"protection", "from", "change">>, <<"easily", "led">>>>,
       emotional_state |-> <<"influenced", "by", "change", "and", "others">>,
       remedy_for |-> <<"Protection", "during", "change", "and", "transition">>,
       combinations |-> <<"centaury", "cerato", "agrimony">>,
       summary |-> "The link-breaker for protection during major life changes" ],
     [ key |-> "water_violet", name |-> "Water Violet", category |-> "loneliness",
       symptoms |-> <<<<"pride">>, <<"aloofness">>, <<"superiority">>, <<"independence">>, <<"withdrawn">>, <<"self-reliant">>>>,
       emotional_state |-> <<"proud", "aloofness">>,
       remedy_for |-> <<"Pride", "and", "aloof", "superiority">>,
       combinations |-> <<"impatiens", "heather", "vine">>,
       summary |-> "For proud, aloof people who prefer their own company" ],
     [ key |-> "white_chestnut", name |-> "White Chestnut", category |-> "insufficient_interest",
       symptoms |-> <<<<"persistent", "thoughts">>, <<"mental", "arguments">>, <<"worrying", "thoughts">>, <<"insomnia">>, <<"racing", "mind">>>>,
       emotional_state |-> <<"persistent", "unwanted", "thoughts">>,
       remedy_for |-> <<"Persistent", "unwanted", "thoughts", "and", "mental", "arguments">>,
       combinations |-> <<"agrimony", "clematis", "mustard">>,
       summary |-> "For persistent unwanted thoughts and mental chatter" ],
     [ key |-> "wild_oat", name |-> "Wild Oat", category |-> "uncertainty",
       symptoms |-> <<<<"uncertainty", "about", "life", "path">>, <<"ambition", "without", "direction">>, <<"dissatisfaction">>, <<"unclear", "goals">>>>,
       emotional_state |-> <<"uncertainty", "about", "life", "direction">>,
       remedy_for |-> <<"Uncertainty", "about", "life", "direction", "and", "goals">>,
       combinations |-> <<"scleranthus", "cerato", "gentian">>,
       summary |-> "For those who are uncertain about their life direction and calling" ],
     [ key |-> "wild_rose", name |-> "Wild Rose", category |-> "insufficient_interest",
       symptoms |-> <<<<"apathy">>, <<"resignation">>, <<"lack", "of", "interest">>, <<"drift", "through", "life">>, <<"no", "effort">>, <<"acceptance", "of", "fate">>>>,
       emotional_state |-> <<"resignation", "and", "apathy">>,
       remedy_for |-> <<"Apathy", "and", "resignation", "to", "circumstances">>,
       combinations |-> <<"clematis", "honeysuckle", "gorse">>,
       summary |-> "For apathy and resignation when interest in life is lost" ],
     [ key |-> "willow", name |-> "Willow", category |-> "despondency",
       symptoms |-> <<<<"resentment">>, <<"bitterness">>, <<"self-pity">>, <<"victim", "mentality">>, <<"blame", "others">>, <<"grudges">>>>,
       emotional_state |-> <<"resentment", "and", "bitterness">>,
       remedy_for |-> <<"Resentment", "and", "bitter", "thoughts">>,
       combinations |-> <<"holly", "beech", "chicory">>,
       summary |-> "For resentment, bitterness and the 'poor me' attitude" ] >>

\* ------------------------------------------------------------------------
\* The bundle table: REMEDY_COMBINATIONS in dict (definition) order.
\* ------------------------------------------------------------------------
REMEDY_COMBINATIONS ==
  << [ key |-> "anxiety_relief", name |-> "Anxiety Relief Blend",
       remedies |-> <<"cherry_plum", "rock_rose", "white_chestnut", "aspen", "mimulus">>,
       concentrations |-> "cherry_plum" :> 2 @@ "rock_rose" :> 2 @@ "white_chestnut" :> 2 @@ "aspen" :> 2 @@ "mimulus" :> 2,
       total_drops |-> 10, dosage |-> "4 drops, 4 times daily", purpose |-> "Comprehensive anxiety management covering panic, worry, and unknown fears",
       suitable_for |-> <<<<"panic", "attacks">>, <<"general", "anxiety">>, <<"worry">>, <<"fear">>, <<"nervous", "tension">>>> ],
     [ key |-> "depression_support", name |-> "Depression Support Blend",
       remedies |-> <<"gentian", "gorse", "mustard", "sweet_chestnut", "wild_rose">>,
       concentrations |-> "gentian" :> 2 @@ "gorse" :> 2 @@ "mustard" :> 2 @@ "sweet_chestnut" :> 2 @@ "wild_rose" :> 2,
       total_drops |-> 10, dosage |-> "4 drops, 4 times daily", purpose |-> "Support for various types of depression and despair",
       suitable_for |-> <<<<"hopelessness">>, <<"discouragement">>, <<"deep", "sadness">>, <<"despair">>, <<"apathy">>>> ],
     [ key |-> "stress_overwhelm", name |-> "Stress & Overwhelm Blend",
       remedies |-> <<"elm", "oak", "agrimony", "white_chestnut", "olive">>,
       concentrations |-> "elm" :> 2 @@ "oak" :> 2 @@ "agrimony" :> 2 @@ "white_chestnut" :> 2 @@ "olive" :> 2,
       total_drops |-> 10, dosage |-> "4 drops, 4 times daily", purpose |-> "For overwhelmed, overworked, and exhausted individuals",
       suitable_for |-> <<<<"work", "stress">>, <<"overwhelm">>, <<"exhaustion">>, <<"responsibility", "burden">>, <<"mental", "fatigue">>>> ],
     [ key |-> "sleep_support", name |-> "Sleep Support Blend",
       remedies |-> <<"white_chestnut", "agrimony", "aspen", "rock_rose">>,
       concentrations |-> "white_chestnut" :> 2 @@ "agrimony" :> 2 @@ "aspen" :> 2 @@ "rock_rose" :> 2,
       total_drops |-> 8, dosage |-> "4 drops before bed, repeat if needed", purpose |-> "Calming the mind for better sleep",
       suitable_for |-> <<<<"insomnia">>, <<"racing", "thoughts">>, <<"nighttime", "anxiety">>, <<"restless", "sleep">>>> ],
     [ key |-> "confidence_building", name |-> "Confidence Building Blend",
       remedies |-> <<"larch", "cerato", "centaury", "pine", "walnut">>,
       concentrations |-> "larch" :> 2 @@ "cerato" :> 2 @@ "centaury" :> 2 @@ "pine" :> 2 @@ "walnut" :> 2,
       total_drops |-> 10, dosage |-> "4 drops, 4 times daily", purpose |-> "Building self-confidence and inner strength",
       suitable_for |-> <<<<"low", "self-esteem">>, <<"lack", "of", "confidence">>, <<"self-doubt">>, <<"people-pleasing">>>> ],
     [ key |-> "grief_healing", name |-> "Grief Healing Blend",
       remedies |-> <<"star_of_bethlehem", "sweet_chestnut", "willow", "honeysuckle">>,
       concentrations |-> "star_of_bethlehem" :> 2 @@ "sweet_chestnut" :> 2 @@ "willow" :> 2 @@ "honeysuckle" :> 2,
       total_drops |-> 8, dosage |-> "4 drops, 4 times daily", purpose |-> "Support during grief and loss",
       suitable_for |-> <<<<"loss">>, <<"bereavement">>, <<"trauma">>, <<"shock">>, <<"emotional", "pain">>>> ] >>

\* str.lower() on the words that occur in the catalog, the bundles and the
\* queries: every word not listed here has no upper-case letter.
LowerTable ==
  "Anxiety" :> "anxiety" @@ "Apathy" :> "apathy" @@ "Complete" :> "complete" @@ "Deep" :> "deep" @@
  "Discouragement" :> "discouragement" @@ "Dominating" :> "dominating" @@
  "Dreaminess" :> "dreaminess" @@ "Emergency" :> "emergency" @@ "Excessive" :> "excessive" @@
  "Extreme" :> "extreme" @@ "Fear" :> "fear" @@ "Great" :> "great" @@ "Guilt" :> "guilt" @@
  "Hatred," :> "hatred," @@ "Impatience" :> "impatience" @@ "Indecision" :> "indecision" @@
  "Intolerance" :> "intolerance" @@ "Lack" :> "lack" @@ "Living" :> "living" @@
  "Mental" :> "mental" @@ "Over-enthusiasm" :> "over-enthusiasm" @@ "Persistent" :> "persistent" @@
  "Possessive" :> "possessive" @@ "Pride" :> "pride" @@ "Protection" :> "protection" @@
  "Resentment" :> "resentment" @@ "Self-centeredness" :> "self-centeredness" @@
  "Self-denial" :> "self-denial" @@ "Self-disgust" :> "self-disgust" @@ "Shock," :> "shock," @@
  "Temporary" :> "temporary" @@ "Terror," :> "terror," @@ "Those" :> "those" @@
  "Uncertainty" :> "uncertainty" @@ "Vague" :> "vague"

lower(w) == IF w \in DOMAIN LowerTable THEN LowerTable[w] ELSE w

\* A run of whitespace inside a text.
WS == " "

\* ' '.join(phrases): the phrases' words, in order.
RECURSIVE join(_)
join(phrases) ==
  IF phrases = <<>> THEN <<>> ELSE Head(phrases) \o join(Tail(phrases))

\* text.split(): the words of a text, whitespace dropped.
split(text) == SelectSeq(text, LAMBDA c : c # WS)

\* set(text.lower().split())
words_of(text) ==
  LET words == split(text) IN { lower(words[i]) : i \in 1..Len(words) }

\* text.strip(): leading and trailing whitespace removed.
RECURSIVE lstrip(_)
lstrip(text) ==
  IF text # <<>> /\ Head(text) = WS THEN lstrip(Tail(text)) ELSE text

RECURSIVE rstrip(_)
rstrip(text) ==
  IF text # <<>> /\ text[Len(text)] = WS
  THEN rstrip(SubSeq(text, 1, Len(text) - 1)) ELSE text

strip(text) == rstrip(lstrip(text))

Range(s) == { s[i] : i \in 1..Len(s) }

RemedyIds == { BACH_REMEDIES[i].key : i \in 1..Len(BACH_REMEDIES) }

IndexOf(remedy_id) ==
  CHOOSE i \in 1..Len(BACH_REMEDIES) : BACH_REMEDIES[i].key = remedy_id

Remedy(remedy_id) == BACH_REMEDIES[IndexOf(remedy_id)]

\* Every key a graph node can have: the catalog keys and the keys named in
\* some item's combinations list.
NodeIds ==
  RemedyIds \cup UNION { Range(BACH_REMEDIES[i].combinations) :
                           i \in 1..Len(BACH_REMEDIES) }

\* ------------------------------------------------------------------------
\* networkx.Graph as the code uses it: _node is an insertion-ordered dict
\* (node, whether it carries the remedy attributes), _adj[n] an
\* insertion-ordered dict neighbour -> weight.
\* ------------------------------------------------------------------------
WeightCombination == 8
WeightCategory == 6

EmptyGraph == [ node |-> <<>>, adj |-> [ n \in NodeIds |-> <<>> ] ]

has_node(g, n) == \E i \in 1..Len(g.node) : g.node[i].id = n

neighbors(g, n) == [ i \in 1..Len(g.adj[n]) |-> g.adj[n][i].to ]

\* d.setdefault(k, w): an existing key keeps its value as well.
dict_setdefault(d, k, w) ==
  IF \E i \in 1..Len(d) : d[i].to = k
  THEN d
  ELSE Append(d, [ to |-> k, weight |-> w ])

\* dict assignment d[k] = w: an existing key keeps its position.
dict_set(d, k, w) ==
  IF \E i \in 1..Len(d) : d[i].to = k
  THEN LET pos == CHOOSE j \in 1..Len(d) : d[j].to = k
       IN  [ d EXCEPT ![pos].weight = w ]
  ELSE Append(d, [ to |-> k, weight |-> w ])

\* Graph.add_node(n, **attrs)
add_node(g, n) ==
  IF has_node(g, n)
  THEN LET pos == CHOOSE j \in 1..Len(g.node) : g.node[j].id = n
       IN  [ g EXCEPT !.node[pos].data = TRUE ]
  ELSE [ node |-> Append(g.node, [ id |-> n, data |-> TRUE ]),
         adj  |-> [ g.adj EXCEPT ![n] = <<>> ] ]

\* The implicit node creation of Graph.add_edge: a node without attributes.
touch_node(g, n) ==
  IF has_node(g, n) THEN g
  ELSE [ node |-> Append(g.node, [ id |-> n, data |-> FALSE ]),
         adj  |-> [ g.adj EXCEPT ![n] = <<>> ] ]

\* A directed add_edge: only u's adjacency receives the edge.
add_edge_one_way(g, u, v, w) ==
  LET g2 == touch_node(touch_node(g, u), v)
  IN  [ g2 EXCEPT !.adj[u] = dict_set(g2.adj[u], v, w) ]

\* Graph.add_edge(u, v, weight=w)
add_edge(g, u, v, w) ==
  LET g2 == touch_node(touch_node(g, u), v)
      au == dict_set(g2.adj[u], v, w)
      g3 == [ g2 EXCEPT !.adj[u] = au ]
  IN  [ g3 EXCEPT !.adj[v] = dict_set(g3.adj[v], u, w) ]

\* Graph.remove_node(first node): what a clear() that forgets all but the
\* first node would leave behind.
clear_first_node_only(g) ==
  IF g.node = <<>> THEN g
  ELSE LET n == g.node[1].id
       IN  [ node |-> Tail(g.node),
             adj  |-> [ m \in NodeIds |->
                          IF m = n THEN <<>>
                          ELSE SelectSeq(g.adj[m], LAMBDA e : e.to # n) ] ]

\* Graph.clear()
clear(g) == EmptyGraph

\* for combination in remedy_data.get('combinations', []): ...
RECURSIVE add_combination_edges(_, _, _)
add_combination_edges(g, remedy_id, combos) ==
  IF combos = <<>> THEN g
  ELSE add_combination_edges(
         IF Head(combos) \in RemedyIds
         THEN add_edge(g, remedy_id, Head(combos), WeightCombination)
         ELSE g,
         remedy_id, Tail(combos))

\* The (other_id, other_data) pairs of BACH_REMEDIES.items() that pass
\* "other_id != remedy_id and other_data.get('category') == category".
same_category(remedy_id) ==
  LET category == Remedy(remedy_id).category
  IN  SelectSeq(BACH_REMEDIES,
                LAMBDA other : /\ other.key # remedy_id
                               /\ other.category = category)

\* for other_id, other_data in BACH_REMEDIES.items(): ... add_edge(...)
RECURSIVE add_category_edges(_, _, _)
add_category_edges(g, remedy_id, others) ==
  IF others = <<>> THEN g
  ELSE add_category_edges(
         add_edge(g, remedy_id, Head(others).key, WeightCategory),
         remedy_id, Tail(others))

\* The same iteration with the category loop ahead of the combination loop.
add_remedy_category_first(g, i) ==
  LET remedy_id == BACH_REMEDIES[i].key
      g1 == add_node(g, remedy_id)
      g2 == add_category_edges(g1, remedy_id, same_category(remedy_id))
  IN  add_combination_edges(g2, remedy_id, BACH_REMEDIES[i].combinations)

\* One iteration of the outer loop of initialize_knowledge_graph.
add_remedy(g, i) ==
  LET remedy_id == BACH_REMEDIES[i].key
      g1 == add_node(g, remedy_id)
      g2 == add_combination_edges(g1, remedy_id, BACH_REMEDIES[i].combinations)
  IN  add_category_edges(g2, remedy_id, same_category(remedy_id))

\* ------------------------------------------------------------------------
\* Numbers.  round() is Python's: to the nearest integer, ties to even.
\* ------------------------------------------------------------------------
Min(a, b) == IF a < b THEN a ELSE b
Max(a, b) == IF a > b THEN a ELSE b

\* round(num / den) for den > 0.
round(num, den) ==
  LET fl  == num \div den
      rem == num - fl * den
  IN  IF 2 * rem < den THEN fl
      ELSE IF 2 * rem > den THEN fl + 1
      ELSE IF fl % 2 = 0 THEN fl ELSE fl + 1

\* Similarities are kept in units of 1/SimScale, raw lexical scores in
\* units of 1/ScoreScale (the code's weights 2, 3 and 2.5 become 4, 6, 5).
SimScale == 20
ScoreScale == 2

\* ------------------------------------------------------------------------
\* find_vector_matches.  The embedding model is a black box: what reaches
\* the code is the array of cosine similarities, one per catalog item.
\* ------------------------------------------------------------------------

\* The same without the lower clamp.
vector_relevance_no_floor(similarity) == Min(10, round(similarity * 10, SimScale))

\* min(10, max(1, round(similarities[idx] * 10)))
vector_relevance(similarity) == Min(10, Max(1, round(similarity * 10, SimScale)))

\* np.argsort(similarities)[-top_k:][::-1].  argsort's default sort is not
\* stable, so among equal similarities the order is whatever the build
\* produces: top is any sequence of top_k distinct indices, listed by
\* non-increasing similarity, that no left-out index beats.
is_top_indices(top, similarities, top_k) ==
  /\ Len(top) = Min(top_k, Len(similarities))
  /\ \A a, b \in 1..Len(top) : a < b =>
        /\ top[a] # top[b]
        /\ similarities[top[a]] >= similarities[top[b]]
  /\ \A j \in 1..Len(similarities) : j \notin Range(top) =>
        \A a \in 1..Len(top) : similarities[j] <= similarities[top[a]]

\* The related items in the reverse of the association list's order.
related_remedies_reversed(remedy_id) ==
  LET listed == SelectSeq(Remedy(remedy_id).combinations,
                          LAMBDA c : c \in RemedyIds)
  IN  [ k \in 1..Len(listed) |-> listed[Len(listed) + 1 - k] ]

\* related_remedies: the item's combinations that are catalog keys.
related_remedies(remedy_id) ==
  SelectSeq(Remedy(remedy_id).combinations, LAMBDA c : c \in RemedyIds)

vector_match(idx, similarities) ==
  [ remedy_id        |-> BACH_REMEDIES[idx].key,
    remedy_name      |-> BACH_REMEDIES[idx].name,
    similarity_score |-> similarities[idx],
    relevance_score  |-> vector_relevance(similarities[idx]),
    related_remedies |-> related_remedies(BACH_REMEDIES[idx].key),
    method           |-> "vector_similarity" ]

find_vector_matches(similarities, top_indices) ==
  [ p \in 1..Len(top_indices) |-> vector_match(top_indices[p], similarities) ]

\* ------------------------------------------------------------------------
\* find_knowledge_graph_matches
\* ------------------------------------------------------------------------
overlap(symptom_words, text) == Cardinality(symptom_words \cap words_of(text))

\* The emotional-state overlap weighted like the symptom overlap.
raw_score_flat_weights(symptom_words, remedy_data) ==
    overlap(symptom_words, join(remedy_data.symptoms)) * (2 * ScoreScale)
  + overlap(symptom_words, remedy_data.emotional_state) * (2 * ScoreScale)
  + overlap(symptom_words, remedy_data.remedy_for) * 5

\* scores[remedy_id], in units of 1/ScoreScale.
raw_score(symptom_words, remedy_data) ==
    overlap(symptom_words, join(remedy_data.symptoms)) * (2 * ScoreScale)
  + overlap(symptom_words, remedy_data.emotional_state) * (3 * ScoreScale)
  + overlap(symptom_words, remedy_data.remedy_for) * 5

\* An insertion that puts item a ahead of the items of equal score.
sorted_insert_before_equals(sorted, score, a) ==
  LET pos == Cardinality({ k \in 1..Len(sorted) : score[sorted[k]] > score[a] })
  IN  SubSeq(sorted, 1, pos) \o <<a>> \o SubSeq(sorted, pos + 1, Len(sorted))

\* sorted(items, key=score, reverse=True): a stable sort, so items of equal
\* score keep their original order.  The result lists the (1-based)
\* positions of the items; item a goes behind every item already placed
\* whose score is at least its own.
sorted_insert(sorted, score, a) ==
  LET pos == Cardinality({ k \in 1..Len(sorted) : score[sorted[k]] >= score[a] })
  IN  SubSeq(sorted, 1, pos) \o <<a>> \o SubSeq(sorted, pos + 1, Len(sorted))

RECURSIVE sorted_prefix(_, _)
sorted_prefix(score, n) ==
  IF n = 0 THEN <<>> ELSE sorted_insert(sorted_prefix(score, n - 1), score, n)

sorted_desc(score) == sorted_prefix(score, Len(score))

\* The loop that fills scores: the raw scores of catalog items 1..n.
RECURSIVE compute_scores(_, _)
compute_scores(symptom_words, n) ==
  IF n = 0 THEN <<>>
  ELSE Append(compute_scores(symptom_words, n - 1),
              raw_score(symptom_words, BACH_REMEDIES[n]))

\* The same with halves rounded up instead of to even.
graph_relevance_half_up(raw) ==
  Min(10, Max(1, (raw + ScoreScale) \div (2 * ScoreScale)))

\* min(10, max(1, round(raw_score / 2)))
graph_relevance(raw) == Min(10, Max(1, round(raw, 2 * ScoreScale)))

\* Zero-score items let through.
is_relevant_or_zero(raw) == raw >= 0

\* if raw_score > 0
is_relevant(raw) == raw > 0

\* neighbors[-3:]
last_neighbors(nbrs) == SubSeq(nbrs, Max(1, Len(nbrs) - 2), Len(nbrs))

\* neighbors[:3]
first_neighbors(nbrs) == SubSeq(nbrs, 1, Min(3, Len(nbrs)))

connected_remedies(g, remedy_id) ==
  IF has_node(g, remedy_id) THEN first_neighbors(neighbors(g, remedy_id))
  ELSE <<>>

graph_match(g, idx, raw) ==
  [ remedy_id          |-> BACH_REMEDIES[idx].key,
    remedy_name        |-> BACH_REMEDIES[idx].name,
    raw_score          |-> raw,
    relevance_score    |-> graph_relevance(raw),
    connected_remedies |-> connected_remedies(g, BACH_REMEDIES[idx].key),
    method             |-> "knowledge_graph" ]

find_knowledge_graph_matches(g, symptoms, top_k) ==
  LET symptom_words == words_of(symptoms)
      scores == compute_scores(symptom_words, Len(BACH_REMEDIES))
      sorted_remedies == sorted_desc(scores)
      top_matches == SubSeq(sorted_remedies, 1, Min(top_k, Len(sorted_remedies)))
      kept == SelectSeq(top_matches, LAMBDA a : is_relevant(scores[a]))
  IN  [ p \in 1..Len(kept) |-> graph_match(g, kept[p], scores[kept[p]]) ]

\* ------------------------------------------------------------------------
\* suggest_remedy_combinations
\* ------------------------------------------------------------------------
matching_remedies(combo_data, primary_remedies) ==
  Range(combo_data.remedies)
    \cap { primary_remedies[p].remedy_id : p \in 1..Len(primary_remedies) }

\* Every entry of primary_remedies counted, also a repeated one.
combo_score_counting_repeats(symptom_words, combo_data, primary_remedies) ==
    overlap(symptom_words, join(combo_data.suitable_for)) * 3
  + Len(SelectSeq(primary_remedies,
                  LAMBDA r : r.remedy_id \in Range(combo_data.remedies))) * 5

combo_score(symptom_words, combo_data, primary_remedies) ==
    overlap(symptom_words, join(combo_data.suitable_for)) * 3
  + Cardinality(matching_remedies(combo_data, primary_remedies)) * 5

\* if combo_score > 0
is_suggested(score) == score > 0

\* combo_data['concentrations'].get(remedy_id, 2)
drops(combo_data, remedy_id) ==
  IF remedy_id \in DOMAIN combo_data.concentrations
  THEN combo_data.concentrations[remedy_id] ELSE 2

remedy_details(combo_data) ==
  LET members == SelectSeq(combo_data.remedies, LAMBDA r : r \in RemedyIds)
  IN  [ p \in 1..Len(members) |->
          [ id    |-> members[p],
            name  |-> Remedy(members[p]).name,
            drops |-> drops(combo_data, members[p]),
            summary |-> Remedy(members[p]).summary ] ]

suggestion(symptom_words, combo_data, primary_remedies) ==
  [ combination_id   |-> combo_data.key,
    name             |-> combo_data.name,
    remedies         |-> remedy_details(combo_data),
    total_drops      |-> combo_data.total_drops,
    relevance_score  |->
      Min(10, Max(1, combo_score(symptom_words, combo_data, primary_remedies))),
    matching_primary |-> matching_remedies(combo_data, primary_remedies) ]

\* suggestions[:3]
top_suggestions_three(suggestions) == SubSeq(suggestions, 1, Min(3, Len(suggestions)))

\* suggestions[:2]
top_suggestions(suggestions) == SubSeq(suggestions, 1, Min(2, Len(suggestions)))

\* The loop over REMEDY_COMBINATIONS.items(): the suggestions built from
\* bundles 1..n.
RECURSIVE collect_suggestions(_, _, _)
collect_suggestions(symptom_words, primary_remedies, n) ==
  IF n = 0 THEN <<>>
  ELSE LET rest == collect_suggestions(symptom_words, primary_remedies, n - 1)
           combo_data == REMEDY_COMBINATIONS[n]
       IN  IF is_suggested(combo_score(symptom_words, combo_data, primary_remedies))
           THEN Append(rest, suggestion(symptom_words, combo_data, primary_remedies))
           ELSE rest

\* The sort left out: the suggestions stay in definition order.
sort_suggestions_skipped(suggestions) == suggestions

\* suggestions.sort(key=relevance_score, reverse=True)
sort_suggestions(suggestions) ==
  LET keys == [ p \in 1..Len(suggestions) |-> suggestions[p].relevance_score ]
      order == sorted_desc(keys)
  IN  [ p \in 1..Len(order) |-> suggestions[order[p]] ]

suggest_remedy_combinations(symptoms, primary_remedies) ==
  LET symptom_words == words_of(symptoms)
      suggestions == collect_suggestions(symptom_words, primary_remedies,
                                         Len(REMEDY_COMBINATIONS))
  IN  top_suggestions(sort_suggestions(suggestions))

\* ------------------------------------------------------------------------
\* get_recommendations: the part after the optional extraction await.
\* embedding is what the embedding model and cosine_similarity produced:
\* either an error, or the similarity array and the argsort outcome.
\* ------------------------------------------------------------------------
Null == [ null |-> TRUE ]

NoAnalysis == [ used |-> FALSE ]

\* HTTPException(status_code, detail), as the answer to a request.
http_error(op, request, code) == [ op |-> op, request |-> request, status |-> code ]

\* x[0] only if x has further entries.
first_or_none_off_by_one(matches) == IF Len(matches) > 1 THEN matches[1] ELSE Null

\* x[0] if x else None
first_or_none(matches) == IF matches # <<>> THEN matches[1] ELSE Null

\* print(f"LLM analysis error: {e}") happened while serving the request.
llm_error(request, nlp_analysis) == request.nlp_mode /\ nlp_analysis.fallback

\* The original text and the extracted phrase exchanged.
nlp_metadata_extracted_as_original(request, nlp_analysis) ==
  IF request.nlp_mode
  THEN [ used |-> TRUE,
         sentiment_polarity |-> nlp_analysis.sentiment.polarity,
         sentiment_subjectivity |-> nlp_analysis.sentiment.subjectivity,
         original_text |-> nlp_analysis.extracted_symptoms ]
  ELSE NoAnalysis

\* if request.nlp_mode: recommendations['nlp_analysis'] = {...}
nlp_metadata(request, nlp_analysis) ==
  IF request.nlp_mode
  THEN [ used |-> TRUE,
         sentiment_polarity |-> nlp_analysis.sentiment.polarity,
         sentiment_subjectivity |-> nlp_analysis.sentiment.subjectivity,
         original_text |-> nlp_analysis.original_text ]
  ELSE NoAnalysis

\* graph_matches is find_knowledge_graph_matches(symptoms_text, top_k=1).
recommendations(request, symptoms_text, nlp_analysis, embedding, graph_matches) ==
  LET vector_matches == find_vector_matches(embedding.similarities, embedding.top)
      all_matches == vector_matches \o graph_matches
  IN  [ op |-> "recommendations",
        request |-> request,
        status |-> 200,
        vector_recommendation |-> first_or_none(vector_matches),
        knowledge_graph_recommendation |-> first_or_none(graph_matches),
        combination_suggestions |->
          suggest_remedy_combinations(symptoms_text, all_matches),
        symptoms_analyzed |-> symptoms_text,
        nlp_mode |-> request.nlp_mode,
        nlp_analysis |-> nlp_metadata(request, nlp_analysis),
        \* the "LLM analysis error" line of the log, for this request
        llm_error |-> llm_error(request, nlp_analysis),
        \* which matchers ran while the request was handled
        calls |-> <<"vector", "lexical", "bundle">> ]

\* The except clause answering with what had been assembled so far.
recommend_partially(request, symptoms_text, nlp_analysis, embedding, graph_matches) ==
  IF embedding.failed
  THEN [ op |-> "recommendations", request |-> request, status |-> 200,
         knowledge_graph_recommendation |-> first_or_none(graph_matches),
         llm_error |-> llm_error(request, nlp_analysis),
         calls |-> <<"vector">> ]
  ELSE recommendations(request, symptoms_text, nlp_analysis, embedding,
                       graph_matches)

\* try: ... except Exception: raise HTTPException(500)
recommend(request, symptoms_text, nlp_analysis, embedding, graph_matches) ==
  IF embedding.failed
  THEN [ op |-> "recommendations", request |-> request, status |-> 500,
         llm_error |-> llm_error(request, nlp_analysis),
         calls |-> <<"vector">> ]
  ELSE recommendations(request, symptoms_text, nlp_analysis, embedding,
                       graph_matches)

\* ------------------------------------------------------------------------
\* Inputs of the model.
\* ------------------------------------------------------------------------
ScenarioA == <<"anxiety,", "worry,", "fear,", "restlessness">>

\* Request texts: empty, blank, the test suite's query, and queries that hit
\* one item, several items (with repeated and capitalised words), several
\* items with the same score, or none.
Queries ==
  { <<>>, <<WS, WS>>, ScenarioA, <<"insomnia">>, <<"unwanted">>,
    <<"Fear", "fear", "Anxiety">>, <<"anxiety">>, <<"xyzzy">> }

\* What the LLM may answer to the extraction prompt.
LlmResponses == { <<WS, "worry", "fear", "panic", "anxiety", WS>> }

\* TextBlob's (polarity, subjectivity), in units of 1/SimScale.
Sentiments ==
  { [ polarity |-> 0, subjectivity |-> 0 ],
    [ polarity |-> -10, subjectivity |-> 16 ] }

\* Similarity arrays: one item at hi, the others at lo.
SimLevels == { <<12, 6>> }

sim_array(peak, level) ==
  [ j \in 1..Len(BACH_REMEDIES) |-> IF j = peak THEN level[1] ELSE level[2] ]

LookupIds == RemedyIds \cup { "invalid_remedy" }

ADMIN_USERNAME == "admin"
ADMIN_PASSWORD == "password"

Credentials ==
  { [ username |-> "admin", password |-> "password" ],
    [ username |-> "admin", password |-> "letmein" ],
    [ username |-> "root", password |-> "password" ] }

\* A request without an Authorization header.
NoCredentials == [ missing |-> TRUE ]

\* What a request to an admin route may carry.
Authorizations == Credentials \cup { NoCredentials }

\* Cap on the documents in db.knowledge_sources.
MaxSources == 1

\* to_list(100) of get_knowledge_sources.
SourceListLimit == 100

\* ------------------------------------------------------------------------
\* State.
\* ------------------------------------------------------------------------
VARIABLES
  knowledge_graph,    \* the module-level nx.Graph
  first_build,        \* history: the graph the startup build left behind
  main_pc,            \* "import" while the module body runs, then "serving"
  loop,               \* who holds the event loop: "main", "admin" or "idle"
  init_i,             \* initialize_knowledge_graph: 0 = not running,
                      \*   k = about to process catalog item k
  client,             \* the client request coroutine, parked at an await
  admin,              \* the admin request coroutine, parked at an await
  knowledge_sources,  \* db.knowledge_sources: sequence of documents
  remedy_selections,  \* db.remedy_selections: sequence of documents
  response,           \* the response being sent, or NoResponse
  probe               \* result of a direct call of one of the functions

vars == << knowledge_graph, first_build, main_pc, loop, init_i, client, admin,
           knowledge_sources, remedy_selections, response, probe >>

NoResponse == [ op |-> "none", request |-> "none", status |-> 0 ]
NoProbe == [ fn |-> "none" ]
ClientIdle == [ pc |-> "idle" ]
AdminIdle == [ pc |-> "idle" ]

Init ==
  /\ knowledge_graph = EmptyGraph
  /\ first_build = EmptyGraph
  /\ main_pc = "import"
  /\ loop = "main"
  /\ init_i = 0
  /\ client = ClientIdle
  /\ admin = AdminIdle
  /\ knowledge_sources = <<>>
  /\ remedy_selections = <<>>
  /\ response = NoResponse
  /\ probe = NoProbe

\* The loop is free to start or resume a coroutine: the app is serving, no
\* callback is running and the previous response has been sent.
Ready == main_pc = "serving" /\ loop = "idle" /\ response = NoResponse

\* ------------------------------------------------------------------------
\* initialize_knowledge_graph, statement by statement.  It contains no
\* await: whoever calls it keeps the event loop until it returns.
\* ------------------------------------------------------------------------
\* The same, but giving up the event loop after clear(), as an await would.
initialize_clear_yielding ==
  /\ init_i = 0
  /\ \/ loop = "main" /\ main_pc = "import"
     \/ loop = "admin" /\ admin.pc = "init"
  /\ knowledge_graph' = clear(knowledge_graph)
  /\ init_i' = 1
  /\ loop' = IF main_pc = "serving" THEN "idle" ELSE loop
  /\ UNCHANGED << first_build, main_pc, client, admin,
                  knowledge_sources, response, probe,
                  remedy_selections >>

initialize_clear ==
  /\ init_i = 0
  /\ \/ loop = "main" /\ main_pc = "import"
     \/ loop = "admin" /\ admin.pc = "init"
  /\ knowledge_graph' = clear(knowledge_graph)
  /\ init_i' = 1
  /\ UNCHANGED << first_build, main_pc, loop, client, admin,
                  knowledge_sources, response, probe,
                  remedy_selections >>

initialize_iter ==
  /\ init_i \in 1..Len(BACH_REMEDIES)
  /\ knowledge_graph' = add_remedy(knowledge_graph, init_i)
  /\ init_i' = init_i + 1
  /\ UNCHANGED << first_build, main_pc, loop, client, admin,
                  knowledge_sources, response, probe,
                  remedy_selections >>

\* Return to the module body (startup), which then starts serving ...
initialize_return_main ==
  /\ init_i = Len(BACH_REMEDIES) + 1
  /\ main_pc = "import"
  /\ init_i' = 0
  /\ main_pc' = "serving"
  /\ loop' = "idle"
  /\ first_build' = knowledge_graph
  /\ UNCHANGED << knowledge_graph, client, admin, knowledge_sources,
                  response, probe,
                  remedy_selections >>

\* ------------------------------------------------------------------------
\* rebuild_knowledge_base
\* ------------------------------------------------------------------------
\* security = HTTPBasic(): the request carries basic credentials (it is
\* answered 401 otherwise, before verify_admin_credentials runs).
security(authorization) == authorization # NoCredentials

\* The check with "or" in the place of "and".
verify_admin_credentials_either(credentials) ==
  \/ credentials.username = ADMIN_USERNAME
  \/ credentials.password = ADMIN_PASSWORD

\* Both compare_digest results must be true; HTTPException(401) otherwise.
verify_admin_credentials(credentials) ==
  /\ credentials.username = ADMIN_USERNAME
  /\ credentials.password = ADMIN_PASSWORD

\* dependencies=[Depends(verify_admin_credentials)] of the admin routes.
admin_authorized(authorization) ==
  security(authorization) /\ verify_admin_credentials(authorization)

\* The request arrives; with valid credentials the handler runs up to
\* "await db.knowledge_sources.find(...)".
rebuild_knowledge_base(credentials) ==
  /\ Ready
  /\ admin.pc = "idle"
  /\ IF admin_authorized(credentials)
     THEN /\ admin' = [ pc |-> "find", credentials |-> credentials ]
          /\ UNCHANGED response
     ELSE /\ response' = http_error("rebuild", credentials, 401)
          /\ UNCHANGED admin
  /\ UNCHANGED << knowledge_graph, first_build, main_pc, loop, init_i, client,
                  knowledge_sources, probe,
                  remedy_selections >>

\* find({"processed": False}) answers; the handler runs to the first
\* "await update_one", or straight into initialize_knowledge_graph.
rebuild_found ==
  /\ Ready
  /\ admin.pc = "find"
  /\ LET sources == SelectSeq(knowledge_sources, LAMBDA s : ~ s.processed)
     IN  IF sources = <<>>
         THEN /\ admin' = [ pc |-> "init", credentials |-> admin.credentials,
                             processed_count |-> 0 ]
              /\ loop' = "admin"
         ELSE /\ admin' = [ pc |-> "update", credentials |-> admin.credentials,
                             sources |-> sources, k |-> 1 ]
              /\ UNCHANGED loop
  /\ UNCHANGED << knowledge_graph, first_build, main_pc, init_i, client,
                  knowledge_sources, response, probe,
                  remedy_selections >>

\* update_one({"id": source['id']}, {"$set": {"processed": True}}) answers.
rebuild_updated ==
  /\ Ready
  /\ admin.pc = "update"
  /\ knowledge_sources' =
       [ n \in 1..Len(knowledge_sources) |->
           IF knowledge_sources[n].id = admin.sources[admin.k].id
           THEN [ knowledge_sources[n] EXCEPT !.processed = TRUE ]
           ELSE knowledge_sources[n] ]
  /\ IF admin.k < Len(admin.sources)
     THEN /\ admin' = [ admin EXCEPT !.k = admin.k + 1 ]
          /\ UNCHANGED loop
     ELSE /\ admin' = [ pc |-> "init", credentials |-> admin.credentials,
                         processed_count |-> admin.k ]
          /\ loop' = "admin"
  /\ UNCHANGED << knowledge_graph, first_build, main_pc, init_i, client,
                  response, probe,
                  remedy_selections >>

\* ... or return to rebuild_knowledge_base, which answers.
initialize_return_admin ==
  /\ init_i = Len(BACH_REMEDIES) + 1
  /\ main_pc = "serving"
  /\ admin.pc = "init"
  /\ init_i' = 0
  /\ loop' = "idle"
  /\ response' = [ op |-> "rebuild", request |-> admin.credentials,
                   status |-> 200,
                   processed_count |-> admin.processed_count ]
  /\ admin' = AdminIdle
  /\ UNCHANGED << knowledge_graph, first_build, main_pc, client,
                  knowledge_sources, probe,
                  remedy_selections >>

\* add_knowledge_source
add_knowledge_source(credentials) ==
  /\ Ready
  /\ admin.pc = "idle"
  /\ IF admin_authorized(credentials)
     THEN /\ Len(knowledge_sources) < MaxSources
          /\ knowledge_sources' =
               Append(knowledge_sources,
                      [ id |-> Len(knowledge_sources) + 1, processed |-> FALSE ])
          /\ response' = [ op |-> "add_source", request |-> credentials,
                           status |-> 200, id |-> Len(knowledge_sources) + 1 ]
     ELSE /\ response' = http_error("add_source", credentials, 401)
          /\ UNCHANGED knowledge_sources
  /\ UNCHANGED << knowledge_graph, first_build, main_pc, loop, init_i, client,
                  admin, probe,
                  remedy_selections >>

\* get_knowledge_sources: find().to_list(100), answered with the documents.
get_knowledge_sources(credentials) ==
  /\ Ready
  /\ response' =
       IF admin_authorized(credentials)
       THEN [ op |-> "list_sources", request |-> credentials, status |-> 200,
              sources |-> SubSeq(knowledge_sources, 1,
                                 Min(SourceListLimit, Len(knowledge_sources))) ]
       ELSE http_error("list_sources", credentials, 401)
  /\ UNCHANGED << knowledge_graph, first_build, main_pc, loop, init_i, client,
                  admin, knowledge_sources, remedy_selections, probe >>

\* get_vector_database_data: one entry per catalog item, or 500 when the
\* embedding model raises.
get_vector_database_data(credentials) ==
  /\ Ready
  /\ \E failed \in BOOLEAN :
       response' =
         IF ~ admin_authorized(credentials)
         THEN http_error("vector_database", credentials, 401)
         ELSE IF failed
         THEN http_error("vector_database", credentials, 500)
         ELSE [ op |-> "vector_database", request |-> credentials,
                status |-> 200, total_remedies |-> Len(BACH_REMEDIES) ]
  /\ UNCHANGED << knowledge_graph, first_build, main_pc, loop, init_i, client,
                  admin, knowledge_sources, remedy_selections, probe >>

\* The edges get_knowledge_graph_data lists: they are computed from the
\* catalog, not read from knowledge_graph.
combination_edges ==
  UNION { { <<i, k>> : k \in { k \in 1..Len(BACH_REMEDIES[i].combinations) :
                                BACH_REMEDIES[i].combinations[k] \in RemedyIds } } :
          i \in 1..Len(BACH_REMEDIES) }

category_edges ==
  { <<i, j>> \in (1..Len(BACH_REMEDIES)) \X (1..Len(BACH_REMEDIES)) :
      i < j /\ BACH_REMEDIES[i].category = BACH_REMEDIES[j].category }

get_knowledge_graph_data(credentials) ==
  /\ Ready
  /\ response' =
       IF admin_authorized(credentials)
       THEN [ op |-> "knowledge_graph", request |-> credentials,
              status |-> 200, total_nodes |-> Len(BACH_REMEDIES),
              total_edges |-> Cardinality(combination_edges)
                                + Cardinality(category_edges) ]
       ELSE http_error("knowledge_graph", credentials, 401)
  /\ UNCHANGED << knowledge_graph, first_build, main_pc, loop, init_i, client,
                  admin, knowledge_sources, remedy_selections, probe >>

\* ------------------------------------------------------------------------
\* get_recommendations
\* ------------------------------------------------------------------------
\* The possible top_indices for top_k = 1: any index of a largest entry.
RECURSIVE largest(_, _)
largest(similarities, n) ==
  IF n = 1 THEN similarities[1]
  ELSE Max(similarities[n], largest(similarities, n - 1))

TopOne(similarities) ==
  LET m == largest(similarities, Len(similarities))
  IN  { <<t>> : t \in { t \in 1..Len(similarities) : similarities[t] = m } }

Embeddings ==
  { [ failed |-> TRUE, similarities |-> <<>>, top |-> <<>> ] }
  \cup UNION { { [ failed |-> FALSE, similarities |-> sim_array(peak, level),
                   top |-> top ] : top \in TopOne(sim_array(peak, level)) } :
               peak \in 1..Len(BACH_REMEDIES), level \in SimLevels }

\* Without nlp_mode the handler has no await: it runs to its response.
\* With nlp_mode it runs TextBlob and parks at the LLM call.
get_recommendations(symptoms, nlp_mode) ==
  /\ Ready
  /\ client.pc = "idle"
  /\ IF nlp_mode
     THEN /\ \E s \in Sentiments :
               client' = [ pc |-> "extract", symptoms |-> symptoms,
                           sentiment |-> s ]
          /\ UNCHANGED response
     ELSE /\ LET graph_matches ==
                     find_knowledge_graph_matches(knowledge_graph, symptoms, 1)
             IN  \E e \in Embeddings :
                    response' = recommend([ symptoms |-> symptoms,
                                            nlp_mode |-> FALSE ],
                                          symptoms, NoAnalysis, e,
                                          graph_matches)
          /\ UNCHANGED client
  /\ UNCHANGED << knowledge_graph, first_build, main_pc, loop, init_i, admin,
                  knowledge_sources, probe,
                  remedy_selections >>

\* The except branch leaving the phrase empty instead of the fallback.
analysis_without_fallback(text, sentiment, llm) ==
  [ sentiment |-> sentiment,
    extracted_symptoms |-> IF llm.failed THEN <<>> ELSE strip(llm.text),
    original_text |-> text,
    fallback |-> llm.failed ]

\* analyze_text_sentiment returns: extracted_symptoms is the stripped LLM
\* answer, or the original text when the LLM call raised.
analysis(text, sentiment, llm) ==
  [ sentiment |-> sentiment,
    extracted_symptoms |-> IF llm.failed THEN text ELSE strip(llm.text),
    original_text |-> text,
    \* the except branch was taken (it prints "LLM analysis error")
    fallback |-> llm.failed ]

LlmOutcomes ==
  { [ failed |-> TRUE, text |-> <<>> ] }
  \cup { [ failed |-> FALSE, text |-> t ] : t \in LlmResponses }

get_recommendations_analyzed ==
  /\ Ready
  /\ client.pc = "extract"
  /\ \E llm \in LlmOutcomes :
       LET nlp_analysis == analysis(client.symptoms, client.sentiment, llm)
           graph_matches ==
             find_knowledge_graph_matches(knowledge_graph,
                                          nlp_analysis.extracted_symptoms, 1)
       IN  \E e \in Embeddings :
              response' = recommend([ symptoms |-> client.symptoms,
                                      nlp_mode |-> TRUE ],
                                    nlp_analysis.extracted_symptoms,
                                    nlp_analysis, e, graph_matches)
  /\ client' = ClientIdle
  /\ UNCHANGED << knowledge_graph, first_build, main_pc, loop, init_i, admin,
                  knowledge_sources, probe,
                  remedy_selections >>

\* ------------------------------------------------------------------------
\* get_remedy_details, get_remedy_details_full
\* ------------------------------------------------------------------------
connected_details(g, remedy_id) ==
  IF has_node(g, remedy_id)
  THEN LET nbrs == neighbors(g, remedy_id)
       IN  [ p \in 1..Len(nbrs) |->
               [ id |-> nbrs[p], name |-> Remedy(nbrs[p]).name,
                 category |-> Remedy(nbrs[p]).category ] ]
  ELSE <<>>

containing_combinations(remedy_id) ==
  LET hits == SelectSeq(REMEDY_COMBINATIONS,
                        LAMBDA c : remedy_id \in Range(c.remedies))
  IN  [ p \in 1..Len(hits) |-> hits[p].key ]

\* if remedy_id not in BACH_REMEDIES: raise HTTPException(404)
remedy_known(remedy_id) == remedy_id \in RemedyIds

\* BACH_REMEDIES.get(remedy_id, {}) instead of the 404.
remedy_details_response_default(g, remedy_id) ==
  [ op |-> "details", request |-> remedy_id, status |-> 200,
    remedy |-> IF remedy_known(remedy_id) THEN Remedy(remedy_id)
               ELSE [ key |-> remedy_id ],
    connected_remedies |-> connected_details(g, remedy_id) ]

remedy_details_response(g, remedy_id) ==
  IF ~ remedy_known(remedy_id)
  THEN http_error("details", remedy_id, 404)
  ELSE [ op |-> "details", request |-> remedy_id, status |-> 200,
         remedy |-> Remedy(remedy_id),
         connected_remedies |-> connected_details(g, remedy_id) ]

remedy_details_full_response(g, remedy_id) ==
  IF ~ remedy_known(remedy_id)
  THEN http_error("details_full", remedy_id, 404)
  ELSE [ op |-> "details_full", request |-> remedy_id, status |-> 200,
         remedy |-> Remedy(remedy_id),
         connected_remedies |-> connected_details(g, remedy_id),
         containing_combinations |-> containing_combinations(remedy_id) ]

get_remedy_details(remedy_id) ==
  /\ Ready
  /\ response' = remedy_details_response(knowledge_graph, remedy_id)
  /\ UNCHANGED << knowledge_graph, first_build, main_pc, loop, init_i, client,
                  admin, knowledge_sources, probe,
                  remedy_selections >>

\* The lookup creating a node for the key it was asked for.
get_remedy_details_full_touching(remedy_id) ==
  /\ Ready
  /\ response' = remedy_details_full_response(knowledge_graph, remedy_id)
  /\ knowledge_graph' = touch_node(knowledge_graph, remedy_id)
  /\ UNCHANGED << first_build, main_pc, loop, init_i, client,
                  admin, knowledge_sources, probe,
                  remedy_selections >>

get_remedy_details_full(remedy_id) ==
  /\ Ready
  /\ response' = remedy_details_full_response(knowledge_graph, remedy_id)
  /\ UNCHANGED << knowledge_graph, first_build, main_pc, loop, init_i, client,
                  admin, knowledge_sources, probe,
                  remedy_selections >>

\* ------------------------------------------------------------------------
\* get_all_combinations
\* ------------------------------------------------------------------------
\* {**combo_data, 'remedy_details': remedy_details}
combination_with_details(combo_data) ==
  [ remedy_details |-> remedy_details(combo_data) ] @@ combo_data

\* The bundles listed last-defined first.
combinations_with_details_reversed ==
  [ n \in 1..Len(REMEDY_COMBINATIONS) |->
      combination_with_details(
        REMEDY_COMBINATIONS[Len(REMEDY_COMBINATIONS) + 1 - n]) ]

\* combinations_with_details: a dict, so an ordered list of (key, value);
\* the key is the value's field key.
combinations_with_details ==
  [ n \in 1..Len(REMEDY_COMBINATIONS) |->
      combination_with_details(REMEDY_COMBINATIONS[n]) ]

get_all_combinations ==
  /\ Ready
  /\ response' = [ op |-> "combinations", request |-> "all", status |-> 200,
                   combinations |-> combinations_with_details ]
  /\ UNCHANGED << knowledge_graph, first_build, main_pc, loop, init_i, client,
                  admin, knowledge_sources, remedy_selections, probe >>

\* The response leaves the server.
send_response ==
  /\ response # NoResponse
  /\ response' = NoResponse
  /\ UNCHANGED << knowledge_graph, first_build, main_pc, loop, init_i, client,
                  admin, knowledge_sources, probe,
                  remedy_selections >>

Next ==
  \/ initialize_clear
  \/ initialize_iter
  \/ initialize_return_main
  \/ initialize_return_admin
  \/ \E credentials \in Authorizations : rebuild_knowledge_base(credentials)
  \/ rebuild_found
  \/ rebuild_updated
  \/ \E credentials \in Authorizations : add_knowledge_source(credentials)
  \/ \E credentials \in Authorizations : get_knowledge_sources(credentials)
  \/ \E credentials \in Authorizations : get_vector_database_data(credentials)
  \/ \E credentials \in Authorizations : get_knowledge_graph_data(credentials)
  \/ \E symptoms \in Queries, nlp_mode \in BOOLEAN :
       get_recommendations(symptoms, nlp_mode)
  \/ get_recommendations_analyzed
  \/ \E remedy_id \in LookupIds : get_remedy_details(remedy_id)
  \/ \E remedy_id \in LookupIds : get_remedy_details_full(remedy_id)
  \/ get_all_combinations
  \/ send_response

Spec == Init /\ [][Next]_vars

\* ------------------------------------------------------------------------
\* Direct calls of the matchers and of the relevance formula, on inputs
\* get_recommendations does not produce (top_k > 1, arbitrary chosen items).
\* ------------------------------------------------------------------------
MaxTopK == 3
MaxChosen == 2

\* Items that may already have been chosen when the bundle recommender runs.
ChosenPool ==
  { "white_chestnut", "agrimony", "elm", "gentian", "star_of_bethlehem" }

\* primary_remedies lists over ChosenPool, of at most MaxChosen entries.
RECURSIVE ChosenLists(_)
ChosenLists(n) ==
  IF n = 0 THEN { <<>> }
  ELSE ChosenLists(n - 1)
       \cup { Append(l, [ remedy_id |-> r ]) :
                l \in { l \in ChosenLists(n - 1) : Len(l) = n - 1 },
                r \in ChosenPool }

CanProbe == main_pc = "serving" /\ probe = NoProbe

probe_vector_relevance(s1, s2) ==
  /\ CanProbe
  /\ probe' = [ fn |-> "vector_relevance", s1 |-> s1, s2 |-> s2,
                r1 |-> vector_relevance(s1), r2 |-> vector_relevance(s2) ]
  /\ UNCHANGED << knowledge_graph, first_build, main_pc, loop, init_i, client,
                  admin, knowledge_sources, response,
                  remedy_selections >>

probe_find_knowledge_graph_matches(symptoms, top_k) ==
  /\ CanProbe
  /\ probe' = [ fn |-> "find_knowledge_graph_matches",
                symptoms |-> symptoms, top_k |-> top_k,
                matches |-> find_knowledge_graph_matches(knowledge_graph,
                                                         symptoms, top_k) ]
  /\ UNCHANGED << knowledge_graph, first_build, main_pc, loop, init_i, client,
                  admin, knowledge_sources, response,
                  remedy_selections >>

probe_suggest_remedy_combinations(symptoms, primary_remedies) ==
  /\ CanProbe
  /\ probe' = [ fn |-> "suggest_remedy_combinations",
                symptoms |-> symptoms, primary_remedies |-> primary_remedies,
                suggestions |-> suggest_remedy_combinations(symptoms,
                                                            primary_remedies) ]
  /\ UNCHANGED << knowledge_graph, first_build, main_pc, loop, init_i, client,
                  admin, knowledge_sources, response,
                  remedy_selections >>

\* Raw scores of a direct call of the relevance formula, in units of
\* 1/ScoreScale: every multiple of 0.5 up to MaxRawScore / ScoreScale.
MaxRawScore == 44

probe_graph_relevance(raw1, raw2) ==
  /\ CanProbe
  /\ probe' = [ fn |-> "graph_relevance", raw1 |-> raw1, raw2 |-> raw2,
                r1 |-> graph_relevance(raw1), r2 |-> graph_relevance(raw2) ]
  /\ UNCHANGED << knowledge_graph, first_build, main_pc, loop, init_i, client,
                  admin, knowledge_sources, response,
                  remedy_selections >>

\* The similarity arrays of a direct call: two items (or one, when the two
\* coincide) at the high level, every other item at the low one.
VectorPeaks == { 1, 2, Len(BACH_REMEDIES) }

sim_pair(peak1, peak2, level) ==
  [ j \in 1..Len(BACH_REMEDIES) |->
      IF j \in { peak1, peak2 } THEN level[1] ELSE level[2] ]

\* The outcomes of np.argsort(similarities)[-top_k:][::-1]: each place goes
\* to any of the most similar items not placed yet.
RECURSIVE top_orders(_, _, _)
top_orders(similarities, placed, top_k) ==
  LET rest == (1..Len(similarities)) \ placed
  IN  IF top_k = 0 \/ rest = {} THEN { <<>> }
      ELSE LET best == { j \in rest :
                           \A i \in rest : similarities[i] <= similarities[j] }
           IN  UNION { { <<j>> \o t :
                           t \in top_orders(similarities, placed \cup { j },
                                            top_k - 1) } : j \in best }

probe_find_vector_matches(similarities, top_k) ==
  /\ CanProbe
  /\ \E top_indices \in top_orders(similarities, {}, top_k) :
       /\ is_top_indices(top_indices, similarities, top_k)
       /\ probe' = [ fn |-> "find_vector_matches",
                     similarities |-> similarities, top_k |-> top_k,
                     top_indices |-> top_indices,
                     matches |-> find_vector_matches(similarities, top_indices) ]
  /\ UNCHANGED << knowledge_graph, first_build, main_pc, loop, init_i, client,
                  admin, knowledge_sources, response,
                  remedy_selections >>

probe_return ==
  /\ probe # NoProbe
  /\ probe' = NoProbe
  /\ UNCHANGED << knowledge_graph, first_build, main_pc, loop, init_i, client,
                  admin, knowledge_sources, response,
                  remedy_selections >>

NextUnit ==
  \/ initialize_clear
  \/ initialize_iter
  \/ initialize_return_main
  \/ \E s1, s2 \in (-SimScale)..SimScale : probe_vector_relevance(s1, s2)
  \/ \E symptoms \in Queries, top_k \in 1..MaxTopK :
       probe_find_knowledge_graph_matches(symptoms, top_k)
  \/ \E symptoms \in Queries, primary_remedies \in ChosenLists(MaxChosen) :
       probe_suggest_remedy_combinations(symptoms, primary_remedies)
  \/ \E peak1, peak2 \in VectorPeaks, level \in SimLevels, top_k \in 1..MaxTopK :
       probe_find_vector_matches(sim_pair(peak1, peak2, level), top_k)
  \/ \E raw1, raw2 \in 1..MaxRawScore : probe_graph_relevance(raw1, raw2)
  \/ probe_return

SpecUnit == Init /\ [][NextUnit]_vars

\* ------------------------------------------------------------------------
\* save_remedy_selection, get_user_selections over db.remedy_selections.
\* ------------------------------------------------------------------------
Users == { "alice", "bob" }

\* to_list(100)
ListLimit == 100

\* The saves of the model: at most MaxSelections in all; the first
\* MaxMixedSelections are any of SelectionRequests, the later ones are the
\* one saved in bulk.
MaxSelections == 101
MaxMixedSelections == 2

BulkSelection == [ user_id |-> "alice", symptoms |-> <<"xyzzy">>, nlp_mode |-> FALSE ]

SelectionRequests ==
  { BulkSelection,
    [ user_id |-> "bob", symptoms |-> <<"insomnia">>, nlp_mode |-> FALSE ] }

\* The embedding outcomes while a selection is saved: an error, or the first
\* catalog item the most similar.
SelectionEmbeddings == { e \in Embeddings : e.failed \/ e.top = <<1>> }

\* db.remedy_selections.find({"user_id": user_id})
find_selections(collection, user_id) ==
  SelectSeq(collection, LAMBDA d : d.user_id = user_id)

\* cursor.to_list(length)
to_list(cursor, length) == SubSeq(cursor, 1, Min(length, Len(cursor)))

\* datetime.now(timezone.utc): a logical clock, later than every stored
\* timestamp.
now(collection) ==
  IF collection = <<>> THEN 1
  ELSE LET stamps == { collection[n].timestamp : n \in 1..Len(collection) }
       IN  1 + CHOOSE t \in stamps : \A u \in stamps : u <= t

\* RemedySelection(...).dict(); the uuid4 id is fresh, here the next number.
remedy_selection(selection, recommendations_response) ==
  [ id |-> Len(remedy_selections) + 1,
    user_id |-> selection.user_id,
    symptoms |-> selection.symptoms,
    nlp_mode |-> selection.nlp_mode,
    recommendations |-> recommendations_response,
    timestamp |-> now(remedy_selections) ]

\* Up to the await of insert_one; an HTTPException of the nested
\* get_recommendations ends the request.
save_remedy_selection(selection) ==
  /\ Ready
  /\ client.pc = "idle"
  /\ Len(remedy_selections) < MaxSelections
  /\ \/ selection = BulkSelection
     \/ Len(remedy_selections) < MaxMixedSelections
  /\ IF selection.nlp_mode
     THEN \* the nested get_recommendations parks at the LLM call
          /\ \E s \in Sentiments :
               client' = [ pc |-> "save_extract", selection |-> selection,
                           sentiment |-> s ]
          /\ UNCHANGED response
     ELSE LET graph_matches ==
                find_knowledge_graph_matches(knowledge_graph,
                                             selection.symptoms, 1)
          IN  \E e \in SelectionEmbeddings :
                LET recommendations_response ==
                      recommend([ symptoms |-> selection.symptoms,
                                  nlp_mode |-> FALSE ],
                                selection.symptoms, NoAnalysis, e, graph_matches)
                IN  IF recommendations_response.status = 200
                    THEN /\ client' = [ pc |-> "insert",
                                        document |-> remedy_selection(
                                          selection, recommendations_response) ]
                         /\ UNCHANGED response
                    ELSE /\ response' =
                              http_error("save_selection", selection, 500)
                         /\ UNCHANGED client
  /\ UNCHANGED << knowledge_graph, first_build, main_pc, loop, init_i, admin,
                  knowledge_sources, remedy_selections, probe >>

\* The LLM call of the nested get_recommendations answered or raised: on to
\* the await of insert_one, or the HTTPException.
save_remedy_selection_analyzed ==
  /\ Ready
  /\ client.pc = "save_extract"
  /\ \E llm \in LlmOutcomes, e \in SelectionEmbeddings :
       LET selection == client.selection
           nlp_analysis == analysis(selection.symptoms, client.sentiment, llm)
           graph_matches ==
             find_knowledge_graph_matches(knowledge_graph,
                                          nlp_analysis.extracted_symptoms, 1)
           recommendations_response ==
             recommend([ symptoms |-> selection.symptoms, nlp_mode |-> TRUE ],
                       nlp_analysis.extracted_symptoms, nlp_analysis, e,
                       graph_matches)
       IN  IF recommendations_response.status = 200
           THEN /\ client' = [ pc |-> "insert",
                               document |-> remedy_selection(
                                 selection, recommendations_response) ]
                /\ UNCHANGED response
           ELSE /\ response' = http_error("save_selection", selection, 500)
                /\ client' = ClientIdle
  /\ UNCHANGED << knowledge_graph, first_build, main_pc, loop, init_i, admin,
                  knowledge_sources, remedy_selections, probe >>

\* insert_one returned: the handler answers with the selection.
save_remedy_selection_inserted ==
  /\ Ready
  /\ client.pc = "insert"
  /\ remedy_selections' = Append(remedy_selections, client.document)
  /\ response' = [ op |-> "save_selection",
                   request |-> [ user_id |-> client.document.user_id,
                                 symptoms |-> client.document.symptoms,
                                 nlp_mode |-> client.document.nlp_mode ],
                   status |-> 200,
                   selection |-> client.document ]
  /\ client' = ClientIdle
  /\ UNCHANGED << knowledge_graph, first_build, main_pc, loop, init_i, admin,
                  knowledge_sources, probe >>

get_user_selections(user_id) ==
  /\ Ready
  /\ client.pc = "idle"
  /\ response' = [ op |-> "selections", request |-> user_id, status |-> 200,
                   selections |->
                     to_list(find_selections(remedy_selections, user_id),
                             ListLimit) ]
  /\ UNCHANGED << knowledge_graph, first_build, main_pc, loop, init_i, client,
                  admin, knowledge_sources, remedy_selections, probe >>

\* ------------------------------------------------------------------------
\* update_remedy_selection
\* ------------------------------------------------------------------------
\* Updates start while the logical clock is within MaxWrites.
MaxWrites == 3

\* The saves of SpecUpdates (at most MaxMixedSelections of them).
UpdateSaveRequests ==
  { [ user_id |-> "alice", symptoms |-> <<"unwanted">>, nlp_mode |-> FALSE ],
    [ user_id |-> "bob", symptoms |-> <<"Fear", "fear", "Anxiety">>,
      nlp_mode |-> TRUE ] }

\* The path parameter: the ids the model can store, and one never stored.
SelectionIds == 0..MaxMixedSelections

UpdatedSymptoms == { <<"insomnia">>, <<"xyzzy">> }

\* update_one(..., upsert=True): a document is inserted when none matches.
update_one_upsert(collection, id, update_data) ==
  IF \E n \in 1..Len(collection) : collection[n].id = id
  THEN LET pos == CHOOSE n \in 1..Len(collection) :
                    /\ collection[n].id = id
                    /\ \A k \in 1..(n - 1) : collection[k].id # id
       IN  [ collection EXCEPT ![pos] = update_data @@ collection[pos] ]
  ELSE Append(collection, update_data @@ [ id |-> id ])

\* db.remedy_selections.update_one({"id": id}, {"$set": update_data}): the
\* first document with the id gets the fields of update_data.
update_one(collection, id, update_data) ==
  IF \E n \in 1..Len(collection) : collection[n].id = id
  THEN LET pos == CHOOSE n \in 1..Len(collection) :
                    /\ collection[n].id = id
                    /\ \A k \in 1..(n - 1) : collection[k].id # id
       IN  [ collection EXCEPT ![pos] = update_data @@ collection[pos] ]
  ELSE collection

\* result.matched_count
matched_count(collection, id) ==
  IF \E n \in 1..Len(collection) : collection[n].id = id THEN 1 ELSE 0

\* Up to the await of update_one; the nested get_recommendations runs with
\* nlp_mode=False, and its HTTPException ends the request.
update_remedy_selection(selection_id, updated_symptoms) ==
  /\ Ready
  /\ client.pc = "idle"
  /\ now(remedy_selections) <= MaxWrites
  /\ LET request == [ selection_id |-> selection_id,
                      updated_symptoms |-> updated_symptoms ]
         graph_matches ==
           find_knowledge_graph_matches(knowledge_graph, updated_symptoms, 1)
     IN  \E e \in SelectionEmbeddings :
           LET recommendations_response ==
                 recommend([ symptoms |-> updated_symptoms,
                             nlp_mode |-> FALSE ],
                           updated_symptoms, NoAnalysis, e, graph_matches)
           IN  IF recommendations_response.status = 200
               THEN /\ client' =
                         [ pc |-> "update_one", request |-> request,
                           update_data |->
                             [ symptoms |-> updated_symptoms,
                               recommendations |-> recommendations_response,
                               timestamp |-> now(remedy_selections) ] ]
                    /\ UNCHANGED response
               ELSE /\ response' = http_error("update_selection", request, 500)
                    /\ UNCHANGED client
  /\ UNCHANGED << knowledge_graph, first_build, main_pc, loop, init_i, admin,
                  knowledge_sources, remedy_selections, probe >>

\* update_one returned: 404 when nothing matched, the message otherwise.
update_remedy_selection_updated ==
  /\ Ready
  /\ client.pc = "update_one"
  /\ remedy_selections' =
       update_one(remedy_selections, client.request.selection_id,
                  client.update_data)
  /\ response' =
       IF matched_count(remedy_selections, client.request.selection_id) = 0
       THEN http_error("update_selection", client.request, 404)
       ELSE [ op |-> "update_selection", request |-> client.request,
              status |-> 200 ]
  /\ client' = ClientIdle
  /\ UNCHANGED << knowledge_graph, first_build, main_pc, loop, init_i, admin,
                  knowledge_sources, probe >>

NextUpdates ==
  \/ initialize_clear
  \/ initialize_iter
  \/ initialize_return_main
  \/ \E selection \in UpdateSaveRequests : save_remedy_selection(selection)
  \/ save_remedy_selection_analyzed
  \/ save_remedy_selection_inserted
  \/ \E selection_id \in SelectionIds, updated_symptoms \in UpdatedSymptoms :
       update_remedy_selection(selection_id, updated_symptoms)
  \/ update_remedy_selection_updated
  \/ send_response

SpecUpdates == Init /\ [][NextUpdates]_vars

NextSelections ==
  \/ initialize_clear
  \/ initialize_iter
  \/ initialize_return_main
  \/ \E selection \in SelectionRequests : save_remedy_selection(selection)
  \/ save_remedy_selection_inserted
  \/ \E user_id \in Users : get_user_selections(user_id)
  \/ send_response

SpecSelections == Init /\ [][NextSelections]_vars

\* ------------------------------------------------------------------------
\* Properties.
\* ------------------------------------------------------------------------
IsRecommendation == response.op = "recommendations" /\ response.status = 200

\* text.split() yields nothing: the text is empty or only whitespace.
is_blank(text) == split(text) = <<>>

Combo(combination_id) ==
  REMEDY_COMBINATIONS[CHOOSE n \in 1..Len(REMEDY_COMBINATIONS) :
                        REMEDY_COMBINATIONS[n].key = combination_id]

\* C1: get_recommendations on an empty or whitespace-only query text fails
\* with a validation error before any matcher is invoked, and returns no
\* Recommendation.
C1_BlankQueryRejected ==
  (response.op = "recommendations" /\ is_blank(response.request.symptoms))
    => /\ response.status \in 400..599
       /\ response.calls = <<>>

\* C2: for the query "anxiety, worry, fear, restlessness" the item the
\* lexical matcher selects with top_k = 1 has non-zero overlap and its
\* symptom / emotional-state tokens contain both "anxiety" and "fear".
C2_ScenarioASelectsAnxietyAndFear ==
  (IsRecommendation /\ response.symptoms_analyzed = ScenarioA)
    => LET rec == response.knowledge_graph_recommendation
       IN  /\ rec # Null
           /\ rec.raw_score > 0
           /\ { "anxiety", "fear" } \subseteq
                words_of(join(Remedy(rec.remedy_id).symptoms))
                  \cup words_of(Remedy(rec.remedy_id).emotional_state)

\* The bundles tagged "insomnia" that contain the lexical matcher's top item.
InsomniaBundlesOfTopItem ==
  IF response.knowledge_graph_recommendation = Null THEN {}
  ELSE { n \in 1..Len(REMEDY_COMBINATIONS) :
           /\ <<"insomnia">> \in Range(REMEDY_COMBINATIONS[n].suitable_for)
           /\ response.knowledge_graph_recommendation.remedy_id
                \in Range(REMEDY_COMBINATIONS[n].remedies) }

SuggestedIds ==
  { response.combination_suggestions[p].combination_id :
      p \in 1..Len(response.combination_suggestions) }

\* The items the two matchers chose for the response.
ChosenIds ==
  { response.vector_recommendation.remedy_id }
  \cup IF response.knowledge_graph_recommendation = Null THEN {}
       ELSE { response.knowledge_graph_recommendation.remedy_id }

\* 3 * |query tokens in suitable_for| + 5 * |members chosen|, for bundle n.
OverlapScore(n) ==
    3 * Cardinality(words_of(response.symptoms_analyzed)
                      \cap words_of(join(REMEDY_COMBINATIONS[n].suitable_for)))
  + 5 * Cardinality(Range(REMEDY_COMBINATIONS[n].remedies) \cap ChosenIds)

Clamped(score) == IF score > 10 THEN 10 ELSE IF score < 1 THEN 1 ELSE score

\* How many bundles precede bundle n in the ranking: positive score, and a
\* higher clamped score or an equal one and an earlier definition.
RankedAhead(n) ==
  Cardinality({ m \in 1..Len(REMEDY_COMBINATIONS) :
                  /\ m # n
                  /\ OverlapScore(m) > 0
                  /\ \/ Clamped(OverlapScore(m)) > Clamped(OverlapScore(n))
                     \/ /\ Clamped(OverlapScore(m)) = Clamped(OverlapScore(n))
                        /\ m < n })

\* C3 as stated: every bundle tagged "insomnia" that contains the lexical
\* matcher's top item is among the returned bundle suggestions.
C3_InsomniaBundleAlwaysReturned ==
  IsRecommendation =>
    \A n \in InsomniaBundlesOfTopItem :
      REMEDY_COMBINATIONS[n].key \in SuggestedIds

\* C3 amended: such a bundle has overlap_score > 0 and is among the returned
\* suggestions exactly when fewer than two bundles precede it in the ranking.
C3_InsomniaBundleReturnedUnlessOutranked ==
  IsRecommendation =>
    \A n \in InsomniaBundlesOfTopItem :
      /\ OverlapScore(n) > 0
      /\ REMEDY_COMBINATIONS[n].key \in SuggestedIds <=> RankedAhead(n) < 2

C3_Witness ==
  /\ IsRecommendation
  /\ \E n \in InsomniaBundlesOfTopItem :
       /\ REMEDY_COMBINATIONS[n].key \in SuggestedIds
       /\ RankedAhead(n) = 1

\* C4: the lexical matcher never returns an item whose raw score is <= 0,
\* and returns the empty list when no item has a positive raw score.
C4_LexicalOnlyPositiveScores ==
  probe.fn = "find_knowledge_graph_matches" =>
    /\ \A p \in 1..Len(probe.matches) : probe.matches[p].raw_score > 0
    /\ (\A a \in 1..Len(BACH_REMEDIES) :
          raw_score(words_of(probe.symptoms), BACH_REMEDIES[a]) <= 0)
         => probe.matches = <<>>

C4_Witness ==
  /\ probe.fn = "find_knowledge_graph_matches"
  /\ probe.matches # <<>>
  /\ Len(probe.matches) < probe.top_k

\* C5: the vector matcher's relevance score is an integer in 1..10 and is
\* monotonic non-decreasing in the similarity.
C5_VectorRelevanceInRangeAndMonotonic ==
  probe.fn = "vector_relevance" =>
    /\ probe.r1 \in 1..10
    /\ probe.r2 \in 1..10
    /\ probe.s1 <= probe.s2 => probe.r1 <= probe.r2

C5_Witness ==
  /\ probe.fn = "vector_relevance"
  /\ probe.s1 < 0 /\ probe.r1 = 1
  /\ probe.s2 = SimScale /\ probe.r2 = 10

\* C6: the bundle recommender returns at most 2 suggestions, none of them
\* with overlap_score <= 0.
C6_AtMostTwoPositiveBundles ==
  probe.fn = "suggest_remedy_combinations" =>
    /\ Len(probe.suggestions) <= 2
    /\ \A p \in 1..Len(probe.suggestions) :
         combo_score(words_of(probe.symptoms),
                     Combo(probe.suggestions[p].combination_id),
                     probe.primary_remedies) > 0

C6_Witness ==
  /\ probe.fn = "suggest_remedy_combinations"
  /\ Len(probe.suggestions) = 2
  /\ Cardinality({ n \in 1..Len(REMEDY_COMBINATIONS) :
                     combo_score(words_of(probe.symptoms), REMEDY_COMBINATIONS[n],
                                 probe.primary_remedies) > 0 }) >= 3

\* Every catalog item is a node carrying its attributes.
Populated(g) ==
  /\ Len(g.node) = Len(BACH_REMEDIES)
  /\ \A n \in 1..Len(g.node) : g.node[n].data /\ g.node[n].id \in RemedyIds

\* C7: a rebuild is atomic for concurrent readers: whenever a request can
\* run, and in everything a reader has been answered, the graph is a whole
\* build, never an empty or partly populated one.
C7_ReadersSeeWholeGraph ==
  /\ (main_pc = "serving" /\ loop = "idle") =>
        /\ knowledge_graph = first_build
        /\ Populated(knowledge_graph)
  /\ (response.op \in { "details", "details_full" } /\ response.status = 200) =>
        response.connected_remedies
          = connected_details(first_build, response.request)
  /\ (IsRecommendation /\ response.knowledge_graph_recommendation # Null) =>
        response.knowledge_graph_recommendation.connected_remedies
          = connected_remedies(first_build,
                response.knowledge_graph_recommendation.remedy_id)

\* A reader is answered between two awaits of a rebuild in progress.
C7_Witness ==
  /\ admin.pc = "update"
  /\ response.op = "details" /\ response.status = 200
  /\ response.connected_remedies # <<>>

\* C8: after any number of rebuilds the graph (nodes, edges, weights and
\* adjacency order) is identical to the one the first build produced.
C8_RebuildIdempotent ==
  (response.op = "rebuild" /\ response.status = 200) =>
    knowledge_graph = first_build

C8_Witness ==
  /\ response.op = "rebuild" /\ response.status = 200
  /\ response.processed_count = 1
  /\ Populated(knowledge_graph)

\* C9: a lookup with a key outside the catalog answers not-found and no
\* item object; with a catalog key it answers that item's data.
C9_LookupUnknownKeyNotFound ==
  response.op \in { "details", "details_full" } =>
    IF response.request \in RemedyIds
    THEN /\ response.status = 200
         /\ response.remedy = Remedy(response.request)
    ELSE /\ response.status = 404
         /\ DOMAIN response = { "op", "request", "status" }

C9_Witness ==
  /\ response.op = "details"
  /\ response.request \notin RemedyIds
  /\ response.status = 404

\* C10: a Recommendation has both match slots; the vector slot is filled,
\* and the lexical slot is null exactly when no catalog item has a positive
\* raw score for the working query.
C10_SlotsPresentNullIffNoMatch ==
  IsRecommendation =>
    /\ { "vector_recommendation", "knowledge_graph_recommendation" }
         \subseteq DOMAIN response
    /\ response.vector_recommendation # Null
    /\ response.knowledge_graph_recommendation = Null
         <=> \A a \in 1..Len(BACH_REMEDIES) :
               raw_score(words_of(response.symptoms_analyzed),
                         BACH_REMEDIES[a]) <= 0

C10_Witness ==
  /\ IsRecommendation
  /\ response.knowledge_graph_recommendation = Null
  /\ response.vector_recommendation # Null

\* The keys of a complete answer of get_recommendations.
RecommendationKeys ==
  { "op", "request", "status", "vector_recommendation",
    "knowledge_graph_recommendation", "combination_suggestions",
    "symptoms_analyzed", "nlp_mode", "nlp_analysis", "llm_error", "calls" }

\* C11: get_recommendations is all-or-nothing: either one failure and no
\* Recommendation key at all, or a complete Recommendation for which every
\* matcher ran.
C11_AllOrNothing ==
  response.op = "recommendations" =>
    \/ /\ response.status = 200
       /\ DOMAIN response = RecommendationKeys
       /\ response.calls = <<"vector", "lexical", "bundle">>
    \/ /\ response.status = 500
       /\ DOMAIN response = { "op", "request", "status", "llm_error", "calls" }

C11_Witness ==
  /\ response.op = "recommendations"
  /\ response.status = 500
  /\ response.request.nlp_mode

\* C12: when extraction is requested and the provider fails, the request
\* does not fail on that account, and the working text given to the matchers
\* and echoed in the answer is the original input text, unmodified.
C12_ExtractionFailureFallsBack ==
  (response.op = "recommendations" /\ response.llm_error) =>
    /\ response.request.nlp_mode
    /\ response.status = 500 => response.calls = <<"vector">>
    /\ response.status = 200 =>
         /\ response.symptoms_analyzed = response.request.symptoms
         /\ response.knowledge_graph_recommendation
              = first_or_none(find_knowledge_graph_matches(
                                first_build, response.request.symptoms, 1))

C12_Witness ==
  /\ IsRecommendation
  /\ response.llm_error
  /\ response.symptoms_analyzed = <<"unwanted">>
  /\ response.knowledge_graph_recommendation # Null

\* What an answer of get_recommendations says about the extraction.
C13_Answer(r) ==
  IF r.nlp_mode
  THEN /\ r.nlp_analysis.used
       /\ r.nlp_analysis.original_text = r.request.symptoms
       /\ \E s \in Sentiments :
            /\ r.nlp_analysis.sentiment_polarity = s.polarity
            /\ r.nlp_analysis.sentiment_subjectivity = s.subjectivity
       /\ ~r.llm_error =>
            r.symptoms_analyzed \in { strip(t) : t \in LlmResponses }
  ELSE /\ r.nlp_analysis = NoAnalysis
       /\ ~r.llm_error
       /\ r.symptoms_analyzed = r.request.symptoms

\* C13: with extraction the answer's query text is the extracted phrase and
\* the answer carries the original text and the sentiment pair computed for
\* this request; without it the query text is the input text, the handler
\* answers without ever waiting on the extraction provider, and no sentiment
\* metadata is present.
C13_ExtractionMetadata ==
  /\ [](IsRecommendation => /\ response.nlp_mode = response.request.nlp_mode
                            /\ C13_Answer(response))
  /\ [][ (response' # response /\ response'.op = "recommendations") =>
           IF response'.request.nlp_mode
           THEN /\ client.pc = "extract"
                /\ response'.request.symptoms = client.symptoms
                /\ response'.status = 200 =>
                     /\ response'.nlp_analysis.sentiment_polarity
                          = client.sentiment.polarity
                     /\ response'.nlp_analysis.sentiment_subjectivity
                          = client.sentiment.subjectivity
           ELSE client.pc = "idle" /\ client' = client ]_vars

C13_Witness ==
  /\ IsRecommendation
  /\ response.nlp_mode
  /\ ~response.llm_error
  /\ response.symptoms_analyzed # response.request.symptoms
  /\ response.nlp_analysis.sentiment_polarity < 0

\* C14: get_all_combinations returns every defined bundle, in definition
\* order, each with one resolved detail (name, drops, summary) per member
\* key, in member order, the drops read from the bundle's concentrations.
C14_AllBundlesWithMemberDetails ==
  response.op = "combinations" =>
    /\ response.status = 200
    /\ Len(response.combinations) = Len(REMEDY_COMBINATIONS)
    /\ \A n \in 1..Len(REMEDY_COMBINATIONS) :
         LET combo == REMEDY_COMBINATIONS[n]
             listed == response.combinations[n]
         IN  /\ listed.key = combo.key
             /\ listed.name = combo.name
             /\ listed.remedies = combo.remedies
             /\ Len(listed.remedy_details) = Len(combo.remedies)
             /\ \A k \in 1..Len(combo.remedies) :
                  LET member == combo.remedies[k]
                      detail == listed.remedy_details[k]
                  IN  /\ member \in DOMAIN combo.concentrations
                      /\ member \in RemedyIds
                      /\ detail.id = member
                      /\ detail.name = Remedy(member).name
                      /\ detail.drops = combo.concentrations[member]
                      /\ detail.summary = Remedy(member).summary

C14_Witness ==
  /\ response.op = "combinations"
  /\ Len(response.combinations) = 6
  /\ Len(response.combinations[4].remedy_details) = 4
  /\ response.combinations[4].remedy_details[1].id = "white_chestnut"

\* C15: after any sequence of successful save_remedy_selection calls,
\* get_user_selections(u) returns all selections saved for user u, each with
\* its symptoms and recommendations, and none saved for another user.
C15_AllSelectionsOfUserReturned ==
  response.op = "selections" =>
    /\ \A p \in 1..Len(remedy_selections) :
         remedy_selections[p].user_id = response.request =>
           \E k \in 1..Len(response.selections) :
             response.selections[k] = remedy_selections[p]
    /\ \A k \in 1..Len(response.selections) :
         response.selections[k].user_id = response.request

\* C16: the vector matcher returns the top_k items in descending
\* similarity order, and among items of equal similarity the one defined
\* earlier in the catalog is ranked, and at the cut-off selected, first.
C16_VectorTiesEarlierFirst ==
  probe.fn = "find_vector_matches" =>
    LET top == probe.top_indices
        sim == probe.similarities
    IN  /\ Len(probe.matches) = Len(top)
        /\ \A a, b \in 1..Len(top) : a < b =>
             \/ sim[top[a]] > sim[top[b]]
             \/ sim[top[a]] = sim[top[b]] /\ top[a] < top[b]
        /\ \A a \in 1..Len(top) : \A j \in 1..Len(sim) :
             j \notin Range(top) =>
               \/ sim[j] < sim[top[a]]
               \/ sim[j] = sim[top[a]] /\ top[a] < j

\* overlap_score of bundle n for the probed call.
ProbedScore(n) ==
  combo_score(words_of(probe.symptoms), REMEDY_COMBINATIONS[n],
              probe.primary_remedies)

\* Bundle a is ranked before bundle b: higher overlap_score, or the same
\* and defined earlier.
ProbedBefore(a, b) ==
  \/ ProbedScore(a) > ProbedScore(b)
  \/ ProbedScore(a) = ProbedScore(b) /\ a < b

\* The positions, in the bundle definitions, of the returned suggestions.
ProbedReturned ==
  [ p \in 1..Len(probe.suggestions) |->
      CHOOSE n \in 1..Len(REMEDY_COMBINATIONS) :
        REMEDY_COMBINATIONS[n].key = probe.suggestions[p].combination_id ]

\* C17: the returned bundles are the (up to) two with the highest
\* overlap_score among those with overlap_score > 0, in descending
\* overlap_score order, equal scores in definition order.
C17_BundlesRankedByOverlapScore ==
  probe.fn = "suggest_remedy_combinations" =>
    LET positive == { n \in 1..Len(REMEDY_COMBINATIONS) : ProbedScore(n) > 0 }
        returned == ProbedReturned
    IN  /\ Len(returned) = Min(2, Cardinality(positive))
        /\ Range(returned) \subseteq positive
        /\ \A a, b \in 1..Len(returned) : a < b =>
             ProbedBefore(returned[a], returned[b])
        /\ \A a \in 1..Len(returned) : \A n \in positive \ Range(returned) :
             ProbedBefore(returned[a], n)

\* initialize_knowledge_graph has just returned: at startup, or in a rebuild
\* that is being answered.
AfterBuild ==
  \/ response.op = "rebuild" /\ response.status = 200
  \/ /\ main_pc = "serving" /\ response = NoResponse /\ probe = NoProbe
     /\ client = ClientIdle /\ admin = AdminIdle
     /\ knowledge_sources = <<>> /\ remedy_selections = <<>>

\* Catalog item a lists catalog item b among its combinations.
Lists(a, b) == BACH_REMEDIES[b].key \in Range(BACH_REMEDIES[a].combinations)

SameCategory(a, b) == BACH_REMEDIES[a].category = BACH_REMEDIES[b].category

\* The weight of the edge between two nodes, 0 when there is none.
edge_weight(g, u, v) ==
  LET entries == SelectSeq(g.adj[u], LAMBDA e : e.to = v)
  IN  IF entries = <<>> THEN 0 ELSE entries[1].weight

\* C18: after a build, two distinct catalog items of one category are joined
\* by an edge of weight 0.6, also when one lists the other as an association;
\* items of different categories of which one lists the other are joined by
\* an edge of weight 0.8; any other two items are not joined.
C18_EdgeWeights ==
  AfterBuild =>
    \A a, b \in 1..Len(BACH_REMEDIES) : a # b =>
      edge_weight(knowledge_graph, BACH_REMEDIES[a].key, BACH_REMEDIES[b].key)
        = IF SameCategory(a, b) THEN WeightCategory
          ELSE IF Lists(a, b) \/ Lists(b, a) THEN WeightCombination
          ELSE 0

C18_Witness ==
  /\ response.op = "rebuild" /\ response.status = 200
  /\ edge_weight(knowledge_graph, "agrimony", "walnut") = WeightCategory
  /\ edge_weight(knowledge_graph, "mimulus", "aspen") = WeightCategory
  /\ edge_weight(knowledge_graph, "mimulus", "agrimony") = WeightCombination
  /\ edge_weight(knowledge_graph, "agrimony", "aspen") = 0

\* The catalog positions of the neighbours of item a, in adjacency order.
NeighbourIndices(a) ==
  LET nbrs == neighbors(knowledge_graph, BACH_REMEDIES[a].key)
  IN  [ p \in 1..Len(nbrs) |-> IndexOf(nbrs[p]) ]

\* b is a neighbour of a by shared category only.
CategoryOnly(a, b) == SameCategory(a, b) /\ ~Lists(a, b) /\ ~Lists(b, a)

\* The item whose loop iteration first inserted the edge between a and b:
\* the earlier-defined of the two if it lists the other or shares its
\* category, else the later-defined one.
FirstInserted(a, b) ==
  IF a < b
  THEN IF Lists(a, b) \/ SameCategory(a, b) THEN a ELSE b
  ELSE IF Lists(b, a) \/ SameCategory(b, a) THEN b ELSE a

\* C19 as stated: in every item's adjacency order, each neighbour on the
\* item's own association list precedes each neighbour connected only by
\* shared category.
C19_AssociationsBeforeCategory ==
  AfterBuild =>
    \A a \in 1..Len(BACH_REMEDIES) :
      LET nbrs == NeighbourIndices(a)
      IN  \A p, q \in 1..Len(nbrs) :
            (Lists(a, nbrs[p]) /\ CategoryOnly(a, nbrs[q])) => p < q

\* C19 amended: an item's neighbours are in the order in which their edges
\* were first inserted: those inserted by earlier-defined items come first,
\* in the order of those items, whatever their kind; among those inserted in
\* the item's own iteration, the ones on its association list precede the
\* others.
C19_AdjacencyInInsertionOrder ==
  AfterBuild =>
    \A a \in 1..Len(BACH_REMEDIES) :
      LET nbrs == NeighbourIndices(a)
      IN  \A p, q \in 1..Len(nbrs) : p < q =>
            /\ FirstInserted(a, nbrs[p]) <= FirstInserted(a, nbrs[q])
            /\ ( /\ FirstInserted(a, nbrs[p]) = a
                 /\ FirstInserted(a, nbrs[q]) = a
                 /\ Lists(a, nbrs[q]) ) => Lists(a, nbrs[p])

C19_Witness ==
  /\ response.op = "rebuild" /\ response.status = 200
  /\ neighbors(knowledge_graph, "mimulus")
       = <<"agrimony", "aspen", "cherry_plum", "larch", "rock_rose">>
  /\ Lists(IndexOf("mimulus"), IndexOf("larch"))
  /\ CategoryOnly(IndexOf("mimulus"), IndexOf("cherry_plum"))

\* Raw score of catalog item n for the probed query.
ProbedRawScore(n) == raw_score(words_of(probe.symptoms), BACH_REMEDIES[n])

\* Item a is ranked before item b: higher raw score, or the same and
\* defined earlier.
RankedBefore(a, b) ==
  \/ ProbedRawScore(a) > ProbedRawScore(b)
  \/ ProbedRawScore(a) = ProbedRawScore(b) /\ a < b

\* C20: the lexical matcher returns exactly min(top_k, number of items with
\* positive raw score) items, the highest-scoring ones, in descending
\* raw-score order with equal scores in catalog order; so filtering the
\* zero-score items before the cut instead of after it changes nothing.
C20_LexicalTopK ==
  probe.fn = "find_knowledge_graph_matches" =>
    LET positive == { n \in 1..Len(BACH_REMEDIES) : ProbedRawScore(n) > 0 }
        returned == [ p \in 1..Len(probe.matches) |->
                        IndexOf(probe.matches[p].remedy_id) ]
    IN  /\ Len(returned) = Min(probe.top_k, Cardinality(positive))
        /\ Range(returned) \subseteq positive
        /\ \A p \in 1..Len(returned) :
             probe.matches[p].raw_score = ProbedRawScore(returned[p])
        /\ \A p, q \in 1..Len(returned) : p < q =>
             RankedBefore(returned[p], returned[q])
        /\ \A p \in 1..Len(returned) : \A n \in positive \ Range(returned) :
             RankedBefore(returned[p], n)

C20_Witness ==
  /\ probe.fn = "find_knowledge_graph_matches"
  /\ probe.top_k >= 2
  /\ Len(probe.matches) = probe.top_k
  /\ probe.matches[1].raw_score = probe.matches[2].raw_score
  /\ Cardinality({ n \in 1..Len(BACH_REMEDIES) : ProbedRawScore(n) > 0 })
       > probe.top_k

\* The lower-cased whitespace-separated tokens of a text.
Tokens(text) ==
  { lower(text[j]) : j \in { j \in 1..Len(text) : text[j] # WS } }

\* The tokens of a list of phrases.
PhraseTokens(phrases) ==
  UNION { Tokens(phrases[j]) : j \in 1..Len(phrases) }

\* 2*|Q n S| + 3*|Q n E| + 2.5*|Q n I| for catalog item n, in halves.
ExpectedRawScore(query, n) ==
  LET Q == Tokens(query)
      S == PhraseTokens(BACH_REMEDIES[n].symptoms)
      E == Tokens(BACH_REMEDIES[n].emotional_state)
      I == Tokens(BACH_REMEDIES[n].remedy_for)
  IN  4 * Cardinality(Q \cap S) + 6 * Cardinality(Q \cap E)
        + 5 * Cardinality(Q \cap I)

\* C21: for every query and catalog item the lexical raw score is
\* 2*|Q n S| + 3*|Q n E| + 2.5*|Q n I| over the lower-cased token sets of the
\* query, the symptom phrases, the emotional-state text and the
\* indicated-for text.
C21_RawScoreFormula ==
  probe.fn = "find_knowledge_graph_matches" =>
    /\ \A n \in 1..Len(BACH_REMEDIES) :
         ProbedRawScore(n) = ExpectedRawScore(probe.symptoms, n)
    /\ \A p \in 1..Len(probe.matches) :
         probe.matches[p].raw_score
           = ExpectedRawScore(probe.symptoms,
                              IndexOf(probe.matches[p].remedy_id))

\* A query with a repeated, differently capitalised token, and an item that
\* has one of its tokens in all three fields.
C21_Witness ==
  /\ probe.fn = "find_knowledge_graph_matches"
  /\ probe.symptoms = <<"Fear", "fear", "Anxiety">>
  /\ probe.matches[1].remedy_id = "mimulus"
  /\ probe.matches[1].raw_score = 19

\* q is raw / 2 rounded to the nearest integer, halves to the even one
\* (raw in halves, so raw / 2 is raw / 4 here).
IsRounded(q, raw) ==
  \/ 4 * q - raw \in -1..1
  \/ 4 * q - raw \in { -2, 2 } /\ q % 2 = 0

\* C22: the lexical relevance score is clamp(round(raw_score / 2), 1, 10),
\* an integer in 1..10, non-decreasing in the raw score.
C22_LexicalRelevance ==
  /\ probe.fn = "graph_relevance" =>
       /\ probe.r1 \in 1..10
       /\ probe.r2 \in 1..10
       /\ probe.raw1 <= probe.raw2 => probe.r1 <= probe.r2
       /\ \E q \in 0..MaxRawScore :
            /\ IsRounded(q, probe.raw1)
            /\ probe.r1 = Clamped(q)
  /\ probe.fn = "find_knowledge_graph_matches" =>
       \A p \in 1..Len(probe.matches) :
         \E q \in 0..MaxRawScore :
           /\ IsRounded(q, probe.matches[p].raw_score)
           /\ probe.matches[p].relevance_score = Clamped(q)

\* 2.5 rounds to 2 and 3.5 to 4.
C22_Witness ==
  /\ probe.fn = "graph_relevance"
  /\ probe.raw1 = 10 /\ probe.r1 = 2
  /\ probe.raw2 = 14 /\ probe.r2 = 4

\* The position, in the bundle definitions, of a returned suggestion.
BundleIndex(combination_id) ==
  CHOOSE n \in 1..Len(REMEDY_COMBINATIONS) :
    REMEDY_COMBINATIONS[n].key = combination_id

\* C23: every bundle returned by get_recommendations reports the relevance
\* min(10, max(1, 3*|Q n T| + 5*|M n C|)), C being the set of item keys the
\* two matchers selected, and reports M n C as the matched items.
C23_BundleRelevance ==
  IsRecommendation =>
    \A p \in 1..Len(response.combination_suggestions) :
      LET s == response.combination_suggestions[p]
          n == BundleIndex(s.combination_id)
      IN  /\ s.relevance_score = Clamped(OverlapScore(n))
          /\ s.matching_primary
               = Range(REMEDY_COMBINATIONS[n].remedies) \cap ChosenIds

\* Both matchers selected the same item: it counts once.
C23_Witness ==
  /\ IsRecommendation
  /\ response.knowledge_graph_recommendation # Null
  /\ response.knowledge_graph_recommendation.remedy_id
       = response.vector_recommendation.remedy_id
  /\ \E p \in 1..Len(response.combination_suggestions) :
       /\ response.combination_suggestions[p].relevance_score = 5
       /\ response.combination_suggestions[p].matching_primary
            = { response.vector_recommendation.remedy_id }

\* C24: the related items of an item returned by the vector matcher are the
\* catalog keys of the item's own association list, in list order, whatever
\* the graph's adjacency of the item is.
C24_RelatedFromAssociationList ==
  probe.fn = "find_vector_matches" =>
    \A p \in 1..Len(probe.matches) :
      LET listed == BACH_REMEDIES[probe.top_indices[p]].combinations
      IN  /\ probe.matches[p].remedy_id = BACH_REMEDIES[probe.top_indices[p]].key
          /\ probe.matches[p].related_remedies
               = SelectSeq(listed, LAMBDA c : c \in RemedyIds)

\* agrimony lists walnut, mimulus, white_chestnut; the graph has walnut
\* first and two category neighbours more.
C24_Witness ==
  /\ probe.fn = "find_vector_matches"
  /\ probe.matches[1].remedy_id = "agrimony"
  /\ probe.matches[1].related_remedies
       # neighbors(knowledge_graph, "agrimony")
  /\ Len(neighbors(knowledge_graph, "agrimony")) = 5

\* C25: the neighbours attached to an item returned by the lexical matcher
\* are the first min(3, degree) entries of the item's adjacency, each of
\* them a catalog item.
C25_FirstThreeNeighbours ==
  probe.fn = "find_knowledge_graph_matches" =>
    \A p \in 1..Len(probe.matches) :
      LET adjacency == knowledge_graph.adj[probe.matches[p].remedy_id]
          attached == probe.matches[p].connected_remedies
      IN  /\ Len(attached) = Min(3, Len(adjacency))
          /\ \A k \in 1..Len(attached) :
               /\ attached[k] = adjacency[k].to
               /\ attached[k] \in RemedyIds

C25_Witness ==
  /\ probe.fn = "find_knowledge_graph_matches"
  /\ probe.matches # <<>>
  /\ probe.matches[1].remedy_id = "mimulus"
  /\ probe.matches[1].connected_remedies = <<"agrimony", "aspen", "cherry_plum">>
  /\ Len(knowledge_graph.adj["mimulus"]) = 5

\* The keys of the graph's nodes, and the nodes that carry remedy attributes.
GraphNodes(g) == { g.node[i].id : i \in 1..Len(g.node) }
AttributedNodes(g) == { g.node[i].id : i \in { i \in 1..Len(g.node) : g.node[i].data } }

\* u -- v is an edge as seen from u.
HasEdge(g, u, v) == \E i \in 1..Len(g.adj[u]) : g.adj[u][i].to = v

\* C29: after every build and rebuild the graph's nodes are exactly the
\* catalog keys, every edge joins two distinct catalog items (no self-loop,
\* no node for a key outside the catalog), and the edge relation is symmetric.
C29_GraphWellFormed ==
  AfterBuild =>
    /\ GraphNodes(knowledge_graph) = RemedyIds
    /\ AttributedNodes(knowledge_graph) = RemedyIds
    /\ Len(knowledge_graph.node) = Cardinality(RemedyIds)
    /\ \A u \in NodeIds :
         /\ u \notin RemedyIds => knowledge_graph.adj[u] = <<>>
         /\ \A i \in 1..Len(knowledge_graph.adj[u]) :
              LET v == knowledge_graph.adj[u][i].to
              IN  /\ v # u
                  /\ v \in RemedyIds
                  /\ HasEdge(knowledge_graph, v, u)
                  /\ edge_weight(knowledge_graph, v, u)
                       = knowledge_graph.adj[u][i].weight

\* A rebuild has been answered and the rebuilt graph has edges.
C29_Witness ==
  /\ response.op = "rebuild" /\ response.status = 200
  /\ GraphNodes(knowledge_graph) = RemedyIds
  /\ HasEdge(knowledge_graph, "mimulus", "agrimony")
  /\ HasEdge(knowledge_graph, "agrimony", "mimulus")

\* The operations that only read the catalog, the bundle table and the graph.
ReadOps == { "recommendations", "details", "details_full", "combinations" }

\* initialize_knowledge_graph is executing one of its statements.
Initializing == init_i \in 0..Len(BACH_REMEDIES) /\ init_i' = init_i + 1

\* C26: get_recommendations, get_all_combinations and the item lookups leave
\* the graph as it is, whether they answer or fail, at each of their steps;
\* the graph is written by the statements of initialize_knowledge_graph only
\* (the catalog and the bundle table are constants of the model).
C26_ReadsLeaveGraphUnchanged ==
  [][ /\ (response' # response /\ response'.op \in ReadOps)
         => knowledge_graph' = knowledge_graph
      /\ client' # client => knowledge_graph' = knowledge_graph
      /\ knowledge_graph' # knowledge_graph
         => /\ Initializing
            /\ loop \in { "main", "admin" }
            /\ response' = response /\ client' = client ]_vars

\* A lookup has failed and a recommendation request is parked while the
\* graph is the one the last build left.
C26_Witness ==
  /\ response.op = "details_full" /\ response.status = 404
  /\ client.pc = "extract"
  /\ main_pc = "serving"
  /\ knowledge_graph = first_build
  /\ knowledge_graph # EmptyGraph

\* The operations behind Depends(verify_admin_credentials).
AdminOps ==
  { "vector_database", "knowledge_graph", "add_source", "list_sources",
    "rebuild" }

ConfiguredCredentials ==
  [ username |-> ADMIN_USERNAME, password |-> ADMIN_PASSWORD ]

\* C30: each of the five protected admin operations runs only for a request
\* whose username and password both equal the configured ones; any other
\* request is answered 401 and changes neither the stored knowledge sources
\* nor the graph.
C30_AdminOnly ==
  /\ [](/\ response.op \in AdminOps
           => IF response.request = ConfiguredCredentials
              THEN response.status # 401
              ELSE response.status = 401
        /\ admin # AdminIdle => admin.credentials = ConfiguredCredentials)
  /\ [][ /\ (response' # response /\ response'.status = 401)
            => /\ knowledge_sources' = knowledge_sources
               /\ knowledge_graph' = knowledge_graph
               /\ admin' = admin
         /\ knowledge_sources' # knowledge_sources
            => \/ /\ response'.op = "add_source"
                  /\ response'.request = ConfiguredCredentials
               \/ admin.pc = "update"
         /\ (main_pc = "serving" /\ knowledge_graph' # knowledge_graph)
            => admin.pc = "init" ]_vars

\* A request with the right password and a wrong username is rejected while
\* a source added by the administrator is stored.
C30_Witness ==
  /\ response.op = "rebuild"
  /\ response.status = 401
  /\ response.request = [ username |-> "root", password |-> "password" ]
  /\ knowledge_sources # <<>>

\* The positions of the stored selections with the given id.
Matching(collection, id) ==
  { n \in 1..Len(collection) : collection[n].id = id }

\* C27: update_remedy_selection with an id no stored selection has answers
\* 404 and leaves every stored selection as it was; with a matching id it
\* replaces that selection's symptoms, recommendations and timestamp only
\* (id, user_id, nlp_mode and every other selection stay); when the new
\* recommendations cannot be computed, nothing is written.
C27_UpdateFrame ==
  [][ /\ (client.pc = "update_one" /\ client'.pc = "idle")
         => LET hit == Matching(remedy_selections, client.request.selection_id)
            IN  /\ Len(remedy_selections') = Len(remedy_selections)
                /\ \A n \in 1..Len(remedy_selections) :
                     n \notin hit => remedy_selections'[n] = remedy_selections[n]
                /\ IF hit = {}
                   THEN response'.status = 404
                   ELSE /\ response'.status = 200
                        /\ Cardinality(hit) = 1
                        /\ \A n \in hit :
                             LET old == remedy_selections[n]
                                 new == remedy_selections'[n]
                             IN  /\ DOMAIN new = DOMAIN old
                                 /\ new.id = old.id
                                 /\ new.user_id = old.user_id
                                 /\ new.nlp_mode = old.nlp_mode
                                 /\ new.symptoms = client.request.updated_symptoms
                                 /\ new.recommendations
                                      = client.update_data.recommendations
                                 /\ new.recommendations.request.symptoms
                                      = client.request.updated_symptoms
                                 /\ new.timestamp = client.update_data.timestamp
                                 /\ new.timestamp > old.timestamp
      /\ (response' # response /\ response'.op = "update_selection"
            /\ response'.status = 500)
         => remedy_selections' = remedy_selections
      /\ client'.pc = "update_one" => remedy_selections' = remedy_selections
    ]_vars

\* The first of two stored selections has been updated, after the second
\* was saved.
C27_Witness ==
  /\ response.op = "update_selection" /\ response.status = 200
  /\ Len(remedy_selections) = 2
  /\ remedy_selections[1].id = 1
  /\ remedy_selections[1].symptoms = <<"insomnia">>
  /\ remedy_selections[1].recommendations.request.symptoms = <<"insomnia">>
  /\ remedy_selections[1].timestamp > remedy_selections[2].timestamp
  /\ remedy_selections[2].symptoms \notin UpdatedSymptoms

\* C28 as stated: after any saves and updates every stored selection is
\* self-consistent: its nlp_mode is the nlp_mode of its stored
\* recommendations, and these were computed for its stored symptoms.
C28_StoredSelectionsSelfConsistent ==
  \A n \in 1..Len(remedy_selections) :
    /\ remedy_selections[n].nlp_mode
         = remedy_selections[n].recommendations.nlp_mode
    /\ remedy_selections[n].recommendations.request.symptoms
         = remedy_selections[n].symptoms
====
